---- MODULE Spec2Model ----
(***************************************************************************)
(* Model of the agent-dev-tool server runtime (src/ai_knowledge/server):   *)
(* the task store, the agent supervisor and the orchestrator loop form the *)
(* core specification (Spec); the audit log, the secret scrubber, the port *)
(* registry, the rate limiter and the auth manager are independent         *)
(* components, each with a specification of its own.                       *)
(*                                                                         *)
(* Threads.  HTTP handlers and the orchestrator tick are coroutines of one *)
(* event loop and contain no suspension point, so each handler is one      *)
(* action; the tick is cut at its loop iterations (tick_pc) so that the    *)
(* per-child monitor threads of AgentManager, which are real threads, can  *)
(* interleave with it.                                                     *)
(***************************************************************************)
EXTENDS Integers, Sequences, FiniteSets, TLC

\* ------------------------------------------------------------------ bounds
Projects == {"p1", "p2"}
\* rows the tasks table can hold
MaxTasks == 2
\* launch attempts (Popen calls) of the agent supervisor
MaxRuns == 2
\* Orchestrator.max_concurrent (config.agents.max_concurrent)
MaxConcurrent == 1

\* calls of AuditLogger.log
MaxAuditCalls == 3
\* lines an agent log file can hold
MaxLogLines == 2
\* RateLimiter.rps and RateLimiter.rpm, scaled down
Rps == 2
Rpm == 3
\* resolution of the rate limiter's clock
TicksPerSecond == 2
\* calls of the rate limiter
MaxChecks == 4
\* tokens created, and days the auth clock runs
MaxTokens == 2
MaxDays == 2
\* EventBus._max_history (100 in the source), scaled down
max_history == 3
\* publish, publish_sync and emit calls in one behaviour
MaxEvents == 5
\* publish() tasks that may wait on the event loop at once
MaxScheduled == 2
\* runs of the managed process in one behaviour
MaxProcRuns == 3
\* LogStreamer objects created, and lines written to the streamed log
MaxStreamers == 2
MaxStreamLines == 2
\* rows of the tasks table of the ordering component, and its clock readings
MaxQueueTasks == 3
MaxStamp == 2
\* emit calls in one behaviour of the delivery component, and the callbacks
\* subscribed to the bus
MaxEmits == 3
NumSubscribers == 2

\* SecretScrubber._min_secret_length
MinSecretLength == 8
\* PortRegistry.range_start and range_end
range_start == 3000
range_end == 9000
\* lengths in seconds of the two windows of RateLimiter.check
SecondSpan == 1
MinuteSpan == 60

\* ------------------------------------------------------- program constants
DefaultMaxRetries == 3
ListPendingLimit == 10

NoPid == 0
NoTask == 0
ManualTask == -1
NoProject == "none"

TaskIds == 1..MaxTasks
Pids == 1..MaxRuns
\* priorities of the tasks the model creates
PriorityInputs == {"normal"}

VARIABLES
    tasks,          \* tasks table: id -> row (status "absent" = no such row)
    agents,         \* AgentManager._agents: the session records
    children,       \* the launch attempts so far: pid -> record of the child
    agent_tasks,    \* Orchestrator._agent_tasks: project -> task id
    tick_pc,        \* position of the orchestrator tick
    tick_list,      \* pending_tasks still to be visited by _assign_tasks
    tick_running,   \* len(running) in _assign_tasks
    tick_busy,      \* busy_projects in _assign_tasks
    last_ev,        \* history: last claim/requeue event of each task
    dup_claim,      \* history: claim_next returned a task that was still claimed
    audit_rows,     \* audit_log table in id order
    last_hash,      \* AuditLogger._last_hash
    audit_clock,    \* number of log calls so far: the seconds of datetime.now()
    vault,          \* Vault._secrets: key -> value
    known_secrets,  \* SecretScrubber._known_secrets of the global scrubber
    scrubber_loaded,\* the global scrubber exists (_scrubber is not None)
    agent_log,      \* lines of logs/agents/<project>.log
    stream_pos,     \* LogStreamer._position, in lines
    log_out,        \* the text last handed out, and by which reader
    assignments,    \* PortRegistry.assignments: key -> port
    bound_ports,    \* ports some process on the host holds
    set_port_called,\* history: set_port has saved an assignment
    rate_now,       \* time.time()
    second_requests,\* RateLimiter._second_requests
    minute_requests,\* RateLimiter._minute_requests
    rate_resp,      \* last answer of check for each client
    admitted,       \* history: times of the calls answered allowed
    rate_checks,    \* number of calls of the limiter so far
    tokens,         \* tokens table: id -> row
    auth_now,       \* datetime.now(), in days
    auth_resp,      \* the last validate_token call and its result
    revoked_ids,    \* history: ids revoke_token returned True for
    issued,         \* history: expiry day of each token created
    runs,           \* history: agent runs started for each task
    requeues,       \* history: times fail() put each task back to pending
    cancel_resp,    \* the last POST /tasks/{id}/cancel: task, its row before, status code
    gw_req,         \* the last request AuthMiddleware.dispatch saw
    gw_resp,        \* its status code
    gw_handler,     \* the effect of the handler that ran for it ("none": no handler)
    boot,           \* history: the last startup (token rows found, token printed)
    bus_history,    \* EventBus._history; an event is its number in publication order
    bus_scheduled,  \* publish() tasks created by publish_sync and not yet run
    bus_slice,      \* publish() between computing _history[-max:] and storing it
    bus_published,  \* number of publish, publish_sync and emit calls so far
    proc_status,    \* ProcessState.status of the one registered process
    proc_stopping,  \* process_id in ProcessManager._stopping
    proc_runs,      \* the runs of the process: run -> its child and its monitor thread
    log_len,        \* lines written so far to the log file of the streamed project
    subscribers,    \* AgentStreamManager._subscribers[project]
    streamers,      \* the LogStreamer objects created so far: their task and _position
    held,           \* AgentStreamManager._streamers[project] (NoStreamer: no entry)
    unsub_wait,     \* unsubscribe calls suspended in "await stop()": the streamer awaited
    sub_at,         \* history: the length of the log at each client's subscribe call
    first_got,      \* history: the first line delivered to each client since it subscribed
    process_log,    \* lines of logs/processes/<id>.log
    gw_env,         \* history: what the last audited request met (limiter answer, INSERT outcome)
    tampering,      \* what was done to each audit_log row after log() wrote it
    queue_rows,     \* a tasks table whose rows may share a created_at value
    queue_claim,    \* the last claim_next on it: the table before, the id returned
    dlv_tasks,      \* the publish() tasks emit has created: where each is in its loops
    dlv_invoked     \* history: the events each subscriber callback was called with, in order

auditVars == <<audit_rows, last_hash, audit_clock>>
scrubVars == <<vault, known_secrets, scrubber_loaded, agent_log, stream_pos, log_out>>
portVars == <<assignments, bound_ports, set_port_called>>
rateVars == <<rate_now, second_requests, minute_requests, rate_resp, admitted, rate_checks>>
authVars == <<tokens, auth_now, auth_resp, revoked_ids, issued>>
retryVars == <<runs, requeues, cancel_resp>>
sideVars == <<auditVars, scrubVars, portVars, rateVars, authVars>>
gatewayVars == <<gw_req, gw_resp, gw_handler>>
bootVars == <<boot>>
busVars == <<bus_history, bus_scheduled, bus_slice, bus_published>>
procVars == <<proc_status, proc_stopping, proc_runs>>
streamVars == <<log_len, subscribers, streamers, held, unsub_wait, sub_at, first_got>>
plogVars == <<process_log>>
envVars == <<gw_env>>
tamperVars == <<tampering>>
queueVars == <<queue_rows, queue_claim>>
dlvVars == <<dlv_tasks, dlv_invoked>>
tailVars == <<procVars, streamVars, plogVars, envVars, tamperVars, queueVars, dlvVars>>
lateVars == <<retryVars, gatewayVars, bootVars, busVars, tailVars>>
extVars == <<sideVars, lateVars>>

coreVars == <<tasks, agents, children, agent_tasks,
              tick_pc, tick_list, tick_running, tick_busy, last_ev, dup_claim>>

\* what the actions of one component leave alone
exceptAudit == <<coreVars, scrubVars, portVars, rateVars, authVars, lateVars>>
exceptScrub == <<coreVars, auditVars, portVars, rateVars, authVars, lateVars>>
exceptPorts == <<coreVars, auditVars, scrubVars, rateVars, authVars, lateVars>>
exceptRate == <<coreVars, auditVars, scrubVars, portVars, authVars, lateVars>>
exceptAuth == <<coreVars, auditVars, scrubVars, portVars, rateVars, lateVars>>

vars == <<coreVars, extVars>>

\* --------------------------------------------- runs of a managed process

ProcRuns == 1..MaxProcRuns
ExitCodes == {0, 1}

\* a run: the child started by one call of start and the thread that monitors it.
\* phase: "none" not started, "running" the child is alive, "exited" wait()
\* can return, "checked" the thread has read _stopping, "done" it has updated
\* the state.  stop_called: stop() was called while this run was the current
\* one and its exit had not been handled yet
NoRun ==
    [phase |-> "none", exit_code |-> 0, stop_called |-> FALSE,
     was_intentional_stop |-> FALSE, class |-> "none"]

\* ------------------------------------------------ ordering of the task queue

\* the ids of the rows (secrets.token_hex(4)), ordered as the numbers are
QueueIds == 1..MaxQueueTasks
QueuePriorities == {"high", "normal"}
NoQueueRow == [status |-> "absent", priority |-> "normal", created_at |-> 0]

\* ------------------------------------------------ event delivery (events/bus.py)

\* the events, numbered in the order of the emit calls
EmitIds == 1..MaxEmits
\* positions in EventBus._all_subscribers
SubscriberIds == 1..NumSubscribers

\* a publish() task: state "none" not created, "ready" created by publish_sync
\* and not run yet, "waiting" suspended in "await callback(event)" of the
\* subscriber at, "done"
NoDelivery == [state |-> "none", at |-> 0]

\* ------------------------------------------------ streaming of agent logs

StreamerIds == 1..MaxStreamers
WsClients == {"w1", "w2"}
NoStreamer == 0
\* a LogStreamer: task "none" not created, "running", "cancelled" stop() has
\* cancelled the task and it has not finished yet, "done"
NoStreamerTask == [task |-> "none", position |-> 0]

\* ------------------------------------------------------------ task store

\* TaskPriority.sort_key / the CASE expression of the ORDER BY clauses
PriorityRank(p) ==
    CASE p = "urgent" -> 0
      [] p = "high" -> 1
      [] p = "normal" -> 2
      [] OTHER -> 3

\* completed_at holds the operation that wrote it ("none": NULL), which stands
\* for the time of that call
AbsentTask ==
    [status |-> "absent", project |-> NoProject, priority |-> "normal",
     created_at |-> 0, assigned_to |-> NoProject, retry_count |-> 0,
     max_retries |-> DefaultMaxRetries, completed_at |-> "none"]

\* ORDER BY priority rank, created_at
TaskBefore(tb, a, b) ==
    \/ PriorityRank(tb[a].priority) < PriorityRank(tb[b].priority)
    \/ /\ PriorityRank(tb[a].priority) = PriorityRank(tb[b].priority)
       /\ tb[a].created_at < tb[b].created_at

PendingIds(tb) == {t \in TaskIds : tb[t].status = "pending"}

FirstOf(tb, S) == CHOOSE t \in S : \A u \in S \ {t} : TaskBefore(tb, t, u)

RECURSIVE SortTasks(_, _)
SortTasks(tb, S) ==
    IF S = {} THEN <<>>
    ELSE LET t == FirstOf(tb, S) IN <<t>> \o SortTasks(tb, S \ {t})

\* TaskRepository.list_pending(limit)
ListPending(tb, limit) ==
    LET all == SortTasks(tb, PendingIds(tb))
    IN IF Len(all) <= limit THEN all ELSE SubSeq(all, 1, limit)

\* TaskRepository.create: the row inserted
NewTask(p, prio, stamp) ==
    [status |-> "pending", project |-> p, priority |-> prio,
     created_at |-> stamp, assigned_to |-> NoProject, retry_count |-> 0,
     max_retries |-> DefaultMaxRetries, completed_at |-> "none"]

NextTaskId(tb) == Cardinality({t \in TaskIds : tb[t].status # "absent"}) + 1

\* mutant of ClaimTarget: the subquery also selects rows that are in progress
ClaimTargetStale(tb) ==
    LET S == {t \in TaskIds : tb[t].status \in {"pending", "in_progress"}}
    IN IF S = {} THEN NoTask ELSE FirstOf(tb, S)

\* TaskRepository.claim_next: id of the row the UPDATE selects (NoTask if none)
ClaimTarget(tb) ==
    IF PendingIds(tb) = {} THEN NoTask ELSE FirstOf(tb, PendingIds(tb))

\* TaskRepository.claim_next: the table after the UPDATE
ClaimNext(tb, assigned_to) ==
    LET t == ClaimTarget(tb)
    IN IF t = NoTask THEN tb
       ELSE [tb EXCEPT ![t].status = "in_progress", ![t].assigned_to = assigned_to]

\* TaskRepository.fail: the row after the UPDATE
FailRow(r) ==
    LET new_retry == r.retry_count + 1
    IN [r EXCEPT !.status = IF new_retry >= r.max_retries THEN "failed" ELSE "pending",
                 !.completed_at = IF new_retry >= r.max_retries THEN "fail" ELSE @,
                 !.retry_count = new_retry,
                 !.assigned_to = NoProject]

\* TaskRepository.fail(task_id): no row, no change
FailTask(tb, t) ==
    IF t = NoTask \/ tb[t].status = "absent" THEN tb
    ELSE [tb EXCEPT ![t] = FailRow(tb[t])]

\* mutant of CancelRow: the UPDATE has no status condition
CancelRowAnyStatus(r) ==
    [r EXCEPT !.status = "cancelled", !.completed_at = "cancel"]

\* TaskRepository.cancel: the row after the UPDATE
CancelRow(r) ==
    IF r.status \in {"pending", "blocked"}
    THEN [r EXCEPT !.status = "cancelled", !.completed_at = "cancel"]
    ELSE r

\* history of claims: "claim" when claim_next returned the task, "requeue"
\* when fail() put it back to pending
EvAfterFail(tb, ev, t) ==
    IF t # NoTask /\ tb[t].status # "absent" /\ FailRow(tb[t]).status = "pending"
    THEN [ev EXCEPT ![t] = "requeue"] ELSE ev

EvAfterClaim(tb, ev) ==
    IF ClaimTarget(tb) = NoTask THEN ev ELSE [ev EXCEPT ![ClaimTarget(tb)] = "claim"]

DupAfterClaim(tb, ev, dup) ==
    dup \/ (ClaimTarget(tb) # NoTask /\ ev[ClaimTarget(tb)] = "claim")

\* ------------------------------------------------------- agent supervisor

HasSession(ag, p) == \E s \in ag : s.project = p
SessionOf(ag, p) == CHOOSE s \in ag : s.project = p

\* mutant of DictSet: the new session is added next to the old one
DictSetKeep(ag, s) == ag \cup {s}

\* self._agents[project] = state
DictSet(ag, s) == {x \in ag : x.project # s.project} \cup {s}

\* AgentManager._is_process_running: os.kill(pid, 0) succeeds
IsProcessRunning(ch, pid) == pid # NoPid /\ ch[pid].phase = "running"

NextPid(ch) == Cardinality({c \in Pids : ch[c].phase # "none"}) + 1

\* mutant of SpawnRefused: only a session that is working counts as running
SpawnRefusedWorkingOnly(ag, ch, p) ==
    /\ HasSession(ag, p)
    /\ SessionOf(ag, p).status = "working"
    /\ IsProcessRunning(ch, SessionOf(ag, p).pid)

\* AgentManager.spawn raises ValueError("... is already running")
SpawnRefused(ag, ch, p) ==
    /\ HasSession(ag, p)
    /\ SessionOf(ag, p).status \notin {"stopped", "error"}
    /\ IsProcessRunning(ch, SessionOf(ag, p).pid)

\* AgentManager.spawn: the AgentState returned (popen_ok: Popen did not raise)
SpawnState(ch, p, task, popen_ok) ==
    IF popen_ok
    THEN [project |-> p, status |-> IF task # NoTask THEN "working" ELSE "idle",
          pid |-> NextPid(ch)]
    ELSE [project |-> p, status |-> "error", pid |-> NoPid]

SpawnAgents(ag, ch, p, task, popen_ok) == DictSet(ag, SpawnState(ch, p, task, popen_ok))

\* the launch attempt: a child that runs, or a Popen call that raised
SpawnChildren(ch, p, popen_ok) ==
    IF popen_ok
    THEN [ch EXCEPT ![NextPid(ch)] = [project |-> p, phase |-> "running", exit_code |-> 0]]
    ELSE [ch EXCEPT ![NextPid(ch)] = [project |-> NoProject, phase |-> "done", exit_code |-> 0]]

BusyStatuses == {"working", "spawning"}
LiveStatuses == {"spawning", "working", "waiting", "testing"}

\* ------------------------------------------------ datetime (audit.py, auth.py)

\* microsecond fields the clock readings of the model take
UsecInputs == {0, 5}

\* datetime.isoformat(): the microseconds are printed only when they are not 0
Isoformat(d) == IF d.usec = 0 THEN <<d.sec>> ELSE <<d.sec, d.usec>>

\* datetime.fromisoformat()
FromIsoformat(s) == [sec |-> s[1], usec |-> IF Len(s) = 1 THEN 0 ELSE s[2]]

\* a < b on datetimes
DateBefore(a, b) == a.sec < b.sec \/ (a.sec = b.sec /\ a.usec < b.usec)

\* ------------------------------------------------ audit log (audit.py)

\* Python None in a hash column
NoHash == <<>>

AuditActions == {"agent.spawn", "task.create"}
ActorIds == {"None", "u1"}

\* AuditLogger._compute_hash: the HMAC is modelled as the tuple of the fields
\* it signs (distinct inputs give distinct hashes)
ComputeHash(e) ==
    <<Isoformat(e.timestamp), e.actor_type, e.actor_id, e.action, e.prev_hash>>

\* the row AuditLogger.log inserts for entry e
StoredRow(e) ==
    [timestamp |-> Isoformat(e.timestamp), actor_type |-> e.actor_type,
     actor_id |-> e.actor_id, action |-> e.action,
     prev_hash |-> e.prev_hash, entry_hash |-> e.entry_hash]

\* the AuditEntry verify_integrity builds from a row
RowEntry(r) ==
    [timestamp |-> FromIsoformat(r.timestamp), actor_type |-> r.actor_type,
     actor_id |-> r.actor_id, action |-> r.action,
     prev_hash |-> r.prev_hash, entry_hash |-> r.entry_hash]

RECURSIVE VerifyFrom(_, _, _)
\* the loop of verify_integrity from row i on, prev being its prev_hash variable
VerifyFrom(rows, i, prev) ==
    IF i > Len(rows) THEN TRUE
    ELSE LET e == RowEntry(rows[i])
         IN IF e.prev_hash # prev THEN FALSE
            ELSE IF e.entry_hash # ComputeHash(e) THEN FALSE
            ELSE VerifyFrom(rows, i + 1, e.entry_hash)

\* AuditLogger.verify_integrity() over the rows in id order: its first result
VerifyIntegrity(rows) == VerifyFrom(rows, 1, NoHash)

\* AuditLogger._init_db: the chain head read from the last stored row
LoadLastHash(rows) ==
    IF rows = <<>> THEN NoHash ELSE rows[Len(rows)].entry_hash

\* ids of the audit_log rows (AUTOINCREMENT)
AuditIds == 1..MaxAuditCalls

\* the columns of a row that can be overwritten; actor_ip is stored by log()
\* and is not among the fields _compute_hash signs
AuditColumns ==
    {"timestamp", "actor_type", "actor_id", "actor_ip", "action", "prev_hash", "entry_hash"}

\* row r with one column overwritten by a value log() did not write
Overwrite(r, col) ==
    CASE col = "timestamp" -> [r EXCEPT !.timestamp = <<9>>]
      [] col = "actor_type" -> [r EXCEPT !.actor_type = "forged"]
      [] col = "actor_id" -> [r EXCEPT !.actor_id = "forged"]
      [] col = "action" -> [r EXCEPT !.action = "forged"]
      [] col = "prev_hash" -> [r EXCEPT !.prev_hash = <<"forged">>]
      [] col = "entry_hash" -> [r EXCEPT !.entry_hash = <<"forged">>]
      [] OTHER -> r

\* SELECT * FROM audit_log ORDER BY id ASC, as far as verify_integrity reads
\* it: the ids of the rows still in the table
RECURSIVE TableIds(_, _, _)
TableIds(rows, tam, i) ==
    IF i > Len(rows) THEN <<>>
    ELSE (IF tam[i] = "deleted" THEN <<>> ELSE <<i>>) \o TableIds(rows, tam, i + 1)

RECURSIVE VerifyNaming(_, _, _, _, _)
\* the loop of verify_integrity over the rows with the ids in ids, from the
\* k-th on: the id named in the failure message, 0 for (True, None)
VerifyNaming(rows, tam, ids, k, prev) ==
    IF k > Len(ids) THEN 0
    ELSE LET e == RowEntry(Overwrite(rows[ids[k]], tam[ids[k]]))
         IN IF e.prev_hash # prev THEN ids[k]
            ELSE IF e.entry_hash # ComputeHash(e) THEN ids[k]
            ELSE VerifyNaming(rows, tam, ids, k + 1, e.entry_hash)

\* the rows a change shows on: an overwritten row, and for a deleted row the
\* next row still in the table (none when every later row is gone too)
AffectedIds(rows, tam) ==
    {i \in 1..Len(rows) : tam[i] \notin {"none", "deleted"}}
    \cup {j \in 1..Len(rows) :
            /\ tam[j] # "deleted"
            /\ \E i \in 1..(j - 1) : /\ tam[i] = "deleted"
                                     /\ \A m \in (i + 1)..(j - 1) : tam[m] = "deleted"}

\* ------------------------------------------------ vault and scrubber

VaultKeys == {"API_KEY", "DB_PASS"}

\* no value under a key
NoSecret == <<>>

\* secret values: one of MinSecretLength characters, one shorter
LongSecret == <<"h", "u", "n", "t", "e", "r", "4", "2">>
ShortSecret == <<"p", "w", "7">>
SecretInputs == {LongSecret, ShortSecret}

\* SecretScrubber.replacement, kept as one symbol of the text
Replacement == <<"[REDACTED]">>

BearerWord == <<"B", "e", "a", "r", "e", "r">>
Whitespace == {" ", "\n"}
WordChars == {"h", "u", "n", "t", "e", "r", "p", "w", "o", "k", "a", "B",
              "4", "2", "7", "_", "-", "."}

\* lines an agent child writes besides the secrets of its environment
OkLine == <<"o", "k">>
BearerLine == BearerWord \o <<" ", "t", "o", "k">>

\* s in text (s not empty)
Contains(text, s) ==
    \E i \in 1..(Len(text) - Len(s) + 1) : SubSeq(text, i, i + Len(s) - 1) = s

RECURSIVE Replace(_, _, _)
\* str.replace(s, rep)
Replace(text, s, rep) ==
    IF Len(text) < Len(s) THEN text
    ELSE IF SubSeq(text, 1, Len(s)) = s
         THEN rep \o Replace(SubSeq(text, Len(s) + 1, Len(text)), s, rep)
         ELSE <<Head(text)>> \o Replace(Tail(text), s, rep)

RECURSIVE ScrubKnown(_, _)
\* SecretScrubber.scrub: the loop over the known secrets
ScrubKnown(text, known) ==
    IF known = {} THEN text
    ELSE LET s == CHOOSE x \in known : TRUE
         IN ScrubKnown(IF Contains(text, s) THEN Replace(text, s, Replacement) ELSE text,
                       known \ {s})

RECURSIVE RunLength(_, _, _)
\* number of consecutive elements of text from position i on that are in set
RunLength(text, i, set) ==
    IF i > Len(text) \/ text[i] \notin set THEN 0
    ELSE 1 + RunLength(text, i + 1, set)

\* length of the match of  Bearer\s+[\w\-\.]+  at the start of text, 0 if none
BearerMatch(text) ==
    IF Len(text) >= Len(BearerWord) /\ SubSeq(text, 1, Len(BearerWord)) = BearerWord
    THEN LET ws == RunLength(text, Len(BearerWord) + 1, Whitespace)
             wd == RunLength(text, Len(BearerWord) + 1 + ws, WordChars)
         IN IF ws >= 1 /\ wd >= 1 THEN Len(BearerWord) + ws + wd ELSE 0
    ELSE 0

RECURSIVE ScrubPatterns(_)
\* SecretScrubber.scrub: the loop over the compiled patterns. The texts of the
\* model have no "=", ":" or "/", no run of 20 word characters and none of the
\* provider prefixes, so the bearer pattern is the only one that can match.
ScrubPatterns(text) ==
    IF text = <<>> THEN <<>>
    ELSE LET n == BearerMatch(text)
         IN IF n > 0
            THEN Replacement \o ScrubPatterns(SubSeq(text, n + 1, Len(text)))
            ELSE <<Head(text)>> \o ScrubPatterns(Tail(text))

\* SecretScrubber.scrub
Scrub(known, text) ==
    IF text = <<>> THEN text ELSE ScrubPatterns(ScrubKnown(text, known))

\* SecretScrubber.load_secrets_from_vault with add_known_secret
LoadSecretsFromVault(vlt) ==
    {vlt[k] : k \in {x \in VaultKeys : vlt[x] # NoSecret
                                        /\ Len(vlt[x]) >= MinSecretLength}}

\* get_scrubber(): the known secrets of the global scrubber after the call
GetScrubber(loaded, known, vlt) ==
    IF loaded THEN known ELSE LoadSecretsFromVault(vlt)

\* scrub_log_content(text): the global scrubber's scrub
ScrubLogContent(loaded, known, vlt, text) ==
    Scrub(GetScrubber(loaded, known, vlt), text)

RECURSIVE JoinLines(_)
\* "\n".join(lines)
JoinLines(ls) ==
    IF ls = <<>> THEN <<>>
    ELSE IF Len(ls) = 1 THEN ls[1]
    ELSE ls[1] \o <<"\n">> \o JoinLines(Tail(ls))

\* log_lines[-n:]
LastLines(ls, n) == SubSeq(ls, IF Len(ls) > n THEN Len(ls) - n + 1 ELSE 1, Len(ls))

\* what a child can print: a secret of the vault, or one of the plain lines
LogPieces(vlt) ==
    {vlt[k] : k \in {x \in VaultKeys : vlt[x] # NoSecret}} \cup {OkLine, BearerLine}

NoOutput == [kind |-> "none", text |-> <<>>]

\* ------------------------------------------------ port registry (ports.py)

Services == {"web", "api"}
PortKeys == Projects \X Services
NoPort == 0

\* PortRegistry.reserved
reserved == {5432, 5433, 6379, 8420, 27017}

\* preferred ports the callers ask for, and ports other programs may hold
PreferredInputs == {NoPort, range_start, range_start + 1, 5432}
BindablePorts == {range_start, range_start + 1}

\* is_port_available(port), bound being the ports some process holds
IsPortAvailable(bound, port) == port \notin bound

RECURSIVE FindAvailablePort(_, _, _, _)
\* find_available_port(start, end, reserved)
FindAvailablePort(bound, start, end, excluded) ==
    IF start >= end THEN NoPort
    ELSE IF start \notin excluded /\ IsPortAvailable(bound, start) THEN start
    ELSE FindAvailablePort(bound, start + 1, end, excluded)

\* PortManager._used_ports
UsedPorts(asg) == {asg[k] : k \in PortKeys} \ {NoPort}

\* PortManager.assign_port: the port saved for the key (NoPort: nothing saved)
AssignedPort(asg, bound, key, preferred) ==
    IF asg[key] # NoPort /\ IsPortAvailable(bound, asg[key]) THEN NoPort
    ELSE IF preferred # NoPort /\ preferred \notin reserved
            /\ IsPortAvailable(bound, preferred) THEN preferred
    ELSE FindAvailablePort(bound, range_start, range_end, reserved \cup UsedPorts(asg))

\* PortManager.set_port: TRUE when the port is saved
SetPortAccepted(asg, bound, key, port) ==
    /\ port \notin reserved
    /\ IsPortAvailable(bound, port) \/ asg[key] = port

\* ------------------------------------------------ rate limiter (middleware.py)

Clients == {"c1", "c2"}

\* time.time() is counted in ticks, TicksPerSecond of them to the second
SecondAgo(now) == now - SecondSpan * TicksPerSecond
MinuteAgo(now) == now - MinuteSpan * TicksPerSecond

\* how far the clock moves between two calls
TimeJumps == {0, 1, TicksPerSecond, MinuteSpan * TicksPerSecond - 1,
              MinuteSpan * TicksPerSecond}

\* [t for t in requests if t > bound]
After(requests, bound) == SelectSeq(requests, LAMBDA t : t > bound)

\* mutant of SecondLimitHit: one request more than the limit is let through
SecondLimitHitLate(n) == n > Rps

\* len(self._second_requests[client_id]) >= self.rps
SecondLimitHit(n) == n >= Rps

\* len(self._minute_requests[client_id]) >= self.rpm
MinuteLimitHit(n) == n >= Rpm

\* ------------------------------------------------ tokens (auth.py)

TokenIds == 1..MaxTokens
NoRecord == 0
NoExpiry == <<>>
NeverExpires == -1

\* expires_in_days of create_token (0: none given)
ExpiresInputs == {0, 1}

\* the n-th plain token create_token draws
PlainToken(n) == <<"adt_", n>>

\* AuthManager._hash_token: SHA-256 modelled as a tag on its input
HashToken(tok) == <<"sha256", tok>>

\* validate_token: the "Bearer " prefix is stripped
StripBearer(tok) == IF tok # <<>> /\ Head(tok) = "Bearer " THEN Tail(tok) ELSE tok

\* the strings validate_token is called with
BearerInputs ==
    {<<>>} \cup {PlainToken(n) : n \in TokenIds}
           \cup {<<"Bearer ">> \o PlainToken(n) : n \in TokenIds}

Day(n) == [sec |-> n, usec |-> 0]

AbsentToken ==
    [present |-> FALSE, token_hash |-> <<>>, expires_at |-> NoExpiry,
     last_used_at |-> NoExpiry, revoked |-> FALSE]

\* mutant of RowValid: the revoked column is not looked at
RowValidIgnoringRevoked(row, now) ==
    ~(row.expires_at # NoExpiry /\ DateBefore(FromIsoformat(row.expires_at), now))

\* validate_token: the checks on the row found
RowValid(row, now) ==
    /\ ~row.revoked
    /\ ~(row.expires_at # NoExpiry /\ DateBefore(FromIsoformat(row.expires_at), now))

\* validate_token: id of the record returned (NoRecord for None)
Validate(tb, tok, now) ==
    IF tok = <<>> THEN NoRecord
    ELSE LET h == HashToken(StripBearer(tok))
             found == {i \in TokenIds : tb[i].present /\ tb[i].token_hash = h}
         IN IF found = {} THEN NoRecord
            ELSE LET i == CHOOSE x \in found : TRUE
                 IN IF RowValid(tb[i], now) THEN i ELSE NoRecord

\* the id of the next token: the tokens are numbered as they are created
NextTokenId(iss) == Len(iss) + 1

\* the token a bearer string was issued for
OwnerOf(tok) == tok[Len(tok)]

Init ==
    /\ tasks = [t \in TaskIds |-> AbsentTask]
    /\ agents = {}
    /\ children = [c \in Pids |-> [project |-> NoProject, phase |-> "none", exit_code |-> 0]]
    /\ agent_tasks = [p \in Projects |-> NoTask]
    /\ tick_pc = "idle"
    /\ tick_list = <<>>
    /\ tick_running = 0
    /\ tick_busy = {}
    /\ last_ev = [t \in TaskIds |-> "none"]
    /\ dup_claim = FALSE
    /\ audit_rows = <<>>
    /\ last_hash = NoHash
    /\ audit_clock = 0
    /\ vault = [k \in VaultKeys |-> NoSecret]
    /\ known_secrets = {}
    /\ scrubber_loaded = FALSE
    /\ agent_log = <<>>
    /\ stream_pos = 0
    /\ log_out = NoOutput
    /\ assignments = [k \in PortKeys |-> NoPort]
    /\ bound_ports = {}
    /\ set_port_called = FALSE
    /\ rate_now = 0
    /\ second_requests = [c \in Clients |-> <<>>]
    /\ minute_requests = [c \in Clients |-> <<>>]
    /\ rate_resp = [c \in Clients |-> "none"]
    /\ admitted = [c \in Clients |-> <<>>]
    /\ rate_checks = 0
    /\ tokens = [i \in TokenIds |-> AbsentToken]
    /\ auth_now = 0
    /\ auth_resp = [bearer |-> <<>>, info |-> NoRecord]
    /\ revoked_ids = {}
    /\ issued = <<>>
    /\ runs = [t \in TaskIds |-> 0]
    /\ requeues = [t \in TaskIds |-> 0]
    /\ cancel_resp = [task |-> NoTask, before |-> AbsentTask, code |-> 0]
    /\ gw_req = [method |-> "GET", path |-> <<"">>, cred |-> "none"]
    /\ gw_resp = 0
    /\ gw_handler = "none"
    /\ boot = [rows |-> 0, printed |-> FALSE]
    /\ bus_history = <<>>
    /\ bus_scheduled = <<>>
    /\ bus_slice = [active |-> FALSE, value |-> <<>>]
    /\ bus_published = 0
    /\ proc_status = "idle"
    /\ proc_stopping = FALSE
    /\ proc_runs = [r \in ProcRuns |-> NoRun]
    /\ log_len = 0
    /\ subscribers = {}
    /\ streamers = [s \in StreamerIds |-> NoStreamerTask]
    /\ held = NoStreamer
    /\ unsub_wait = [c \in WsClients |-> NoStreamer]
    /\ sub_at = [c \in WsClients |-> 0]
    /\ first_got = [c \in WsClients |-> 0]
    /\ process_log = <<>>
    /\ gw_env = [allowed |-> TRUE, insert_ok |-> TRUE]
    /\ tampering = [i \in AuditIds |-> "none"]
    /\ queue_rows = [t \in QueueIds |-> NoQueueRow]
    /\ queue_claim = [before |-> queue_rows, got |-> 0]
    /\ dlv_tasks = [e \in EmitIds |-> NoDelivery]
    /\ dlv_invoked = [k \in SubscriberIds |-> <<>>]

tickVars == <<tick_pc, tick_list, tick_running, tick_busy>>
histVars == <<last_ev, dup_claim>>

\* state.<field> = ... on the AgentState object held in _agents
Mutate(ag, s, s2) == (ag \ {s}) \cup {s2}

\* POST /tasks -> TaskRepository.create
CreateTask(p, prio) ==
    /\ UNCHANGED extVars
    /\ tick_pc = "idle"
    /\ NextTaskId(tasks) <= MaxTasks
    /\ tasks' = [tasks EXCEPT ![NextTaskId(tasks)] = NewTask(p, prio, NextTaskId(tasks))]
    /\ UNCHANGED <<agents, children, agent_tasks, tickVars, histVars>>

\* POST /tasks/{id}/cancel -> TaskRepository.cancel (404 when no row is updated)
CancelTask(t) ==
    /\ UNCHANGED extVars
    /\ tick_pc = "idle"
    /\ tasks[t].status \in {"pending", "blocked"}
    /\ tasks' = [tasks EXCEPT ![t] = CancelRow(tasks[t])]
    /\ UNCHANGED <<agents, children, agent_tasks, tickVars, histVars>>

\* the assignments of a spawn that did not raise
DoSpawn(p, task, popen_ok) ==
    /\ NextPid(children) <= MaxRuns
    /\ agents' = SpawnAgents(agents, children, p, task, popen_ok)
    /\ children' = SpawnChildren(children, p, popen_ok)

\* POST /agents/spawn -> AgentManager.spawn (400 and no change when it raises)
SpawnAgent(p, task, popen_ok) ==
    /\ UNCHANGED extVars
    /\ tick_pc = "idle"
    /\ ~SpawnRefused(agents, children, p)
    /\ DoSpawn(p, task, popen_ok)
    /\ UNCHANGED <<tasks, agent_tasks, tickVars, histVars>>

\* POST /agents/{project}/stop -> AgentManager.stop (404 when there is no session)
StopAgent(p) ==
    /\ UNCHANGED extVars
    /\ tick_pc = "idle"
    /\ HasSession(agents, p)
    /\ LET s == SessionOf(agents, p)
       IN agents' = Mutate(agents, s, [s EXCEPT !.status = "stopped", !.pid = NoPid])
    /\ UNCHANGED <<tasks, children, agent_tasks, tickVars, histVars>>

\* POST /agents/{project}/assign -> AgentManager.assign_task
AssignToAgent(p, popen_ok) ==
    /\ UNCHANGED extVars
    /\ tick_pc = "idle"
    /\ IF ~HasSession(agents, p) \/ SessionOf(agents, p).status = "stopped"
       THEN DoSpawn(p, ManualTask, popen_ok)
       ELSE /\ popen_ok
            /\ SessionOf(agents, p).status # "working"
            /\ agents' = Mutate(agents, SessionOf(agents, p),
                                [SessionOf(agents, p) EXCEPT !.status = "working"])
            /\ UNCHANGED children
    /\ UNCHANGED <<tasks, agent_tasks, tickVars, histVars>>

\* the child process ends; process.wait() returns in its monitor thread
ChildExit(c, code) ==
    /\ UNCHANGED extVars
    /\ children[c].phase = "running"
    /\ children' = [children EXCEPT ![c].phase = "reaped", ![c].exit_code = code]
    /\ UNCHANGED <<tasks, agents, agent_tasks, tickVars, histVars>>

\* TaskRepository.complete as Orchestrator._on_agent_complete calls it:
\* complete(task_id, output=output) against the signature complete(task_id, result)
\* raises TypeError, which AgentManager._emit swallows; the table is unchanged
CompleteCall(tb, t) == tb

\* Orchestrator._on_agent_complete: the tasks table afterwards
OnAgentComplete(tb, task_id, exit_code) ==
    IF task_id = NoTask THEN tb
    ELSE IF exit_code = 0 THEN CompleteCall(tb, task_id)
    ELSE FailTask(tb, task_id)

\* AgentManager._monitor_process after wait(): update the session, emit task_complete
Monitor(c) ==
    /\ UNCHANGED extVars
    /\ children[c].phase = "reaped"
    /\ children' = [children EXCEPT ![c] = [project |-> NoProject, phase |-> "done", exit_code |-> 0]]
    /\ LET p == children[c].project
           code == children[c].exit_code
       IN IF HasSession(agents, p)
          THEN /\ agents' = Mutate(agents, SessionOf(agents, p),
                               [SessionOf(agents, p) EXCEPT
                                   !.status = IF code = 0 THEN "stopped" ELSE "error",
                                   !.pid = NoPid])
               /\ agent_tasks' = [agent_tasks EXCEPT ![p] = NoTask]
               /\ tasks' = OnAgentComplete(tasks, agent_tasks[p], code)
               /\ last_ev' = IF code # 0 THEN EvAfterFail(tasks, last_ev, agent_tasks[p])
                             ELSE last_ev
          ELSE UNCHANGED <<agents, agent_tasks, tasks, last_ev>>
    /\ UNCHANGED <<tickVars, dup_claim>>

\* POST /tasks/{id}/run
RunTaskNow(t, popen_ok) ==
    /\ UNCHANGED extVars
    /\ tick_pc = "idle"
    /\ tasks[t].status = "pending"
    /\ LET p == tasks[t].project
           claimed == ClaimTarget(tasks)
           tb1 == ClaimNext(tasks, p)
       IN /\ last_ev' = IF claimed = t /\ SpawnRefused(agents, children, p)
                        THEN EvAfterFail(tb1, EvAfterClaim(tasks, last_ev), t)
                        ELSE EvAfterClaim(tasks, last_ev)
          /\ dup_claim' = DupAfterClaim(tasks, last_ev, dup_claim)
          /\ IF claimed # t
             THEN /\ popen_ok
                  /\ tasks' = tb1
                  /\ UNCHANGED <<agents, children>>
             ELSE IF SpawnRefused(agents, children, p)
             THEN /\ popen_ok
                  /\ tasks' = FailTask(tb1, t)
                  /\ UNCHANGED <<agents, children>>
             ELSE /\ tasks' = tb1
                  /\ DoSpawn(p, t, popen_ok)
    /\ UNCHANGED <<agent_tasks, tickVars>>

\* AgentManager.check_health: the session afterwards
HealthUpdate(ch, s) ==
    IF s.pid # NoPid /\ ~IsProcessRunning(ch, s.pid)
    THEN [s EXCEPT !.status = "stopped", !.pid = NoPid]
    ELSE s

\* AgentManager.check_health: the value reported for the session
Healthy(ch, s) ==
    IF s.pid # NoPid THEN IsProcessRunning(ch, s.pid)
    ELSE s.status \notin {"stopped", "error"}

\* Orchestrator._check_agent_health: projects whose in-progress tasks are failed
StoppedUnhealthy(ag, ch) ==
    {s.project : s \in {x \in ag : ~Healthy(ch, x) /\ HealthUpdate(ch, x).status = "stopped"}}

HealthFailed(tb, ag, ch) ==
    {t \in TaskIds : tb[t].status = "in_progress" /\ tb[t].assigned_to \in StoppedUnhealthy(ag, ch)}

HealthTasks(tb, ag, ch) ==
    [t \in TaskIds |-> IF t \in HealthFailed(tb, ag, ch) THEN FailRow(tb[t]) ELSE tb[t]]

\* Orchestrator._assign_tasks: the sessions counted as running
RunningSessions(ag) == {s \in ag : s.status \in BusyStatuses}

\* Orchestrator._tick up to the first iteration of the loop of _assign_tasks,
\* for an orchestrator with max_concurrent = cap and list_pending(limit)
TickBeginWith(cap, limit) ==
    /\ UNCHANGED extVars
    /\ tick_pc = "idle"
    /\ LET ag1 == {HealthUpdate(children, s) : s \in agents}
           tb1 == HealthTasks(tasks, agents, children)
           running == RunningSessions(ag1)
           pending == ListPending(tb1, limit)
       IN /\ agents' = ag1
          /\ tasks' = tb1
          /\ last_ev' = [t \in TaskIds |->
                            IF t \in HealthFailed(tasks, agents, children) /\ tb1[t].status = "pending"
                            THEN "requeue" ELSE last_ev[t]]
          /\ IF Cardinality(running) >= cap \/ pending = <<>>
             THEN /\ tick_pc' = "done"
                  /\ UNCHANGED <<tick_list, tick_running, tick_busy>>
             ELSE /\ tick_pc' = "assign"
                  /\ tick_list' = pending
                  /\ tick_running' = Cardinality(running)
                  /\ tick_busy' = {s.project : s \in running}
    /\ UNCHANGED <<children, agent_tasks, dup_claim>>

TickBegin == TickBeginWith(MaxConcurrent, ListPendingLimit)

\* one iteration of the loop of Orchestrator._assign_tasks, max_concurrent = cap
TickStepWith(cap, popen_ok) ==
    /\ UNCHANGED extVars
    /\ tick_pc = "assign"
    /\ LET t == Head(tick_list)
           rest == Tail(tick_list)
           p == tasks[t].project
           tb1 == ClaimNext(tasks, p)
           continue == /\ tick_list' = rest
                       /\ tick_pc' = IF rest = <<>> THEN "done" ELSE "assign"
       IN IF p \in tick_busy
          THEN /\ popen_ok
               /\ continue
               /\ UNCHANGED <<tasks, agents, children, agent_tasks,
                              tick_running, tick_busy, histVars>>
          ELSE IF tick_running >= cap
          THEN /\ popen_ok
               /\ tick_pc' = "done"
               /\ tick_list' = <<>>
               /\ UNCHANGED <<tasks, agents, children, agent_tasks,
                              tick_running, tick_busy, histVars>>
          ELSE IF ClaimTarget(tasks) = NoTask
          THEN /\ popen_ok
               /\ continue
               /\ UNCHANGED <<tasks, agents, children, agent_tasks,
                              tick_running, tick_busy, histVars>>
          ELSE IF SpawnRefused(agents, children, p)
          THEN /\ popen_ok
               /\ continue
               /\ tasks' = FailTask(tb1, t)
               /\ last_ev' = EvAfterFail(tb1, EvAfterClaim(tasks, last_ev), t)
               /\ dup_claim' = DupAfterClaim(tasks, last_ev, dup_claim)
               /\ UNCHANGED <<agents, children, agent_tasks,
                              tick_running, tick_busy>>
          ELSE /\ continue
               /\ tasks' = tb1
               /\ last_ev' = EvAfterClaim(tasks, last_ev)
               /\ dup_claim' = DupAfterClaim(tasks, last_ev, dup_claim)
               /\ DoSpawn(p, t, popen_ok)
               /\ tick_busy' = tick_busy \cup {p}
               /\ tick_running' = tick_running + 1
               /\ agent_tasks' = [agent_tasks EXCEPT ![p] = t]

TickStep(popen_ok) == TickStepWith(MaxConcurrent, popen_ok)

\* the tick returns to the sleep of Orchestrator._run_loop
TickEnd ==
    /\ UNCHANGED extVars
    /\ tick_pc = "done"
    /\ tick_pc' = "idle"
    /\ tick_list' = <<>>
    /\ tick_running' = 0
    /\ tick_busy' = {}
    /\ UNCHANGED <<tasks, agents, children, agent_tasks, histVars>>

Next ==
    \/ \E p \in Projects, prio \in PriorityInputs : CreateTask(p, prio)
    \/ \E t \in TaskIds : CancelTask(t)
    \/ \E p \in Projects, task \in {NoTask, ManualTask}, ok \in BOOLEAN : SpawnAgent(p, task, ok)
    \/ \E p \in Projects : StopAgent(p)
    \/ \E p \in Projects, ok \in BOOLEAN : AssignToAgent(p, ok)
    \/ \E c \in Pids, code \in {0, 1} : ChildExit(c, code)
    \/ \E c \in Pids : Monitor(c)
    \/ \E t \in TaskIds, ok \in BOOLEAN : RunTaskNow(t, ok)
    \/ TickBegin
    \/ \E ok \in BOOLEAN : TickStep(ok)
    \/ TickEnd

Spec == Init /\ [][Next]_vars

\* ------------------------------------------------ audit log: actions

\* AuditLogger.log; insert_ok is FALSE when the INSERT raises
AuditLog(action, actor_id, usec, insert_ok) ==
    /\ audit_clock < MaxAuditCalls
    /\ LET e0 == [timestamp |-> [sec |-> audit_clock + 1, usec |-> usec],
                  actor_type |-> "system", actor_id |-> actor_id,
                  action |-> action, prev_hash |-> last_hash]
           e == [timestamp |-> e0.timestamp, actor_type |-> e0.actor_type,
                 actor_id |-> e0.actor_id, action |-> e0.action,
                 prev_hash |-> e0.prev_hash, entry_hash |-> ComputeHash(e0)]
       IN /\ last_hash' = e.entry_hash
          /\ audit_rows' = IF insert_ok THEN Append(audit_rows, StoredRow(e))
                           ELSE audit_rows
    /\ audit_clock' = audit_clock + 1
    /\ UNCHANGED exceptAudit

\* AuditLogger.__init__ of a restarted server
AuditRestart ==
    /\ last_hash' = LoadLastHash(audit_rows)
    /\ UNCHANGED <<audit_rows, audit_clock>>
    /\ UNCHANGED exceptAudit

NextAudit ==
    \/ \E a \in AuditActions, u \in ActorIds, us \in UsecInputs, ok \in BOOLEAN :
          AuditLog(a, u, us, ok)
    \/ AuditRestart

SpecAudit == Init /\ [][NextAudit]_vars

\* ------------------------------------------------ vault and scrubber: actions

\* Vault.set
VaultSet(k, v) ==
    /\ vault' = [vault EXCEPT ![k] = v]
    /\ log_out' = NoOutput
    /\ UNCHANGED <<known_secrets, scrubber_loaded, agent_log, stream_pos>>
    /\ UNCHANGED exceptScrub

\* the agent child appends a line to its log file
ChildWrite(piece) ==
    /\ Len(agent_log) < MaxLogLines
    /\ piece \in LogPieces(vault)
    /\ agent_log' = Append(agent_log, piece)
    /\ UNCHANGED <<vault, known_secrets, scrubber_loaded, stream_pos, log_out>>
    /\ UNCHANGED exceptScrub

\* a reader scrubs text with the global scrubber and hands it out
HandOut(kind, text) ==
    /\ known_secrets' = GetScrubber(scrubber_loaded, known_secrets, vault)
    /\ scrubber_loaded' = TRUE
    /\ log_out' = [kind |-> kind,
                   text |-> ScrubLogContent(scrubber_loaded, known_secrets, vault, text)]

\* AgentManager.get_logs(project, lines = n)
GetLogs(n) ==
    /\ agent_log # <<>>
    /\ HandOut("get_logs", JoinLines(LastLines(agent_log, n)))
    /\ UNCHANGED <<vault, agent_log, stream_pos>>
    /\ UNCHANGED exceptScrub

\* AgentManager._capture_output: the output passed with task_complete
CaptureOutput ==
    /\ agent_log # <<>>
    /\ HandOut("task_complete", JoinLines(agent_log))
    /\ UNCHANGED <<vault, agent_log, stream_pos>>
    /\ UNCHANGED exceptScrub

\* LogStreamer._stream_loop: one poll that finds new content
StreamPoll ==
    /\ Len(agent_log) > stream_pos
    /\ HandOut("stream", JoinLines(SubSeq(agent_log, stream_pos + 1, Len(agent_log))))
    /\ stream_pos' = Len(agent_log)
    /\ UNCHANGED <<vault, agent_log>>
    /\ UNCHANGED exceptScrub

NextScrub ==
    \/ \E k \in VaultKeys, v \in SecretInputs : VaultSet(k, v)
    \/ \E piece \in SecretInputs \cup {OkLine, BearerLine} : ChildWrite(piece)
    \/ \E n \in 1..MaxLogLines : GetLogs(n)
    \/ CaptureOutput
    \/ StreamPoll

SpecScrub == Init /\ [][NextScrub]_vars

\* ------------------------------------------------ port registry: actions

\* PortManager.assign_port(project, service, preferred)
AssignPort(key, preferred) ==
    /\ LET port == AssignedPort(assignments, bound_ports, key, preferred)
       IN assignments' = IF port = NoPort THEN assignments
                         ELSE [assignments EXCEPT ![key] = port]
    /\ UNCHANGED <<bound_ports, set_port_called>>
    /\ UNCHANGED exceptPorts

\* PortManager.release_port(project, service)
ReleasePort(key) ==
    /\ assignments[key] # NoPort
    /\ assignments' = [assignments EXCEPT ![key] = NoPort]
    /\ UNCHANGED <<bound_ports, set_port_called>>
    /\ UNCHANGED exceptPorts

\* PortManager.set_port(project, service, port)
SetPort(key, port) ==
    /\ SetPortAccepted(assignments, bound_ports, key, port)
    /\ assignments' = [assignments EXCEPT ![key] = port]
    /\ set_port_called' = TRUE
    /\ UNCHANGED bound_ports
    /\ UNCHANGED exceptPorts

\* some process binds a port, or closes it
BindPort(port) ==
    /\ bound_ports' = IF port \in bound_ports THEN bound_ports \ {port}
                      ELSE bound_ports \cup {port}
    /\ UNCHANGED <<assignments, set_port_called>>
    /\ UNCHANGED exceptPorts

NextPorts ==
    \/ \E key \in PortKeys, pref \in PreferredInputs : AssignPort(key, pref)
    \/ \E key \in PortKeys : ReleasePort(key)
    \/ \E key \in PortKeys, port \in PreferredInputs \ {NoPort} : SetPort(key, port)
    \/ \E port \in BindablePorts : BindPort(port)

SpecPorts == Init /\ [][NextPorts]_vars

\* ------------------------------------------------ rate limiter: actions

\* RateLimiter.check(client_id), called dt ticks after the previous call
RateCheck(c, dt) ==
    /\ rate_checks < MaxChecks
    /\ rate_checks' = rate_checks + 1
    /\ LET now == rate_now + dt
           sec == After(second_requests[c], SecondAgo(now))
           min == After(minute_requests[c], MinuteAgo(now))
       IN /\ rate_now' = now
          /\ IF SecondLimitHit(Len(sec))
             THEN /\ second_requests' = [second_requests EXCEPT ![c] = sec]
                  /\ rate_resp' = [rate_resp EXCEPT ![c] = "second"]
                  /\ UNCHANGED <<minute_requests, admitted>>
             ELSE IF MinuteLimitHit(Len(min))
             THEN /\ second_requests' = [second_requests EXCEPT ![c] = sec]
                  /\ minute_requests' = [minute_requests EXCEPT ![c] = min]
                  /\ rate_resp' = [rate_resp EXCEPT ![c] = "minute"]
                  /\ UNCHANGED admitted
             ELSE /\ second_requests' = [second_requests EXCEPT ![c] = Append(sec, now)]
                  /\ minute_requests' = [minute_requests EXCEPT ![c] = Append(min, now)]
                  /\ rate_resp' = [rate_resp EXCEPT ![c] = "allowed"]
                  /\ admitted' = [admitted EXCEPT ![c] = Append(@, now)]
    /\ UNCHANGED exceptRate

\* RateLimiter.cleanup(), called dt ticks after the previous call
RateCleanup(dt) ==
    /\ rate_checks < MaxChecks
    /\ LET now == rate_now + dt
           kept == [c \in Clients |-> After(minute_requests[c], MinuteAgo(now))]
       IN /\ rate_now' = now
          /\ minute_requests' = kept
          /\ second_requests' = [c \in Clients |->
                                   IF minute_requests[c] # <<>> /\ kept[c] = <<>>
                                   THEN <<>> ELSE second_requests[c]]
    /\ rate_checks' = rate_checks + 1
    /\ UNCHANGED <<rate_resp, admitted>>
    /\ UNCHANGED exceptRate

NextRate ==
    \/ \E c \in Clients, dt \in TimeJumps : RateCheck(c, dt)
    \/ \E dt \in TimeJumps : RateCleanup(dt)

SpecRate == Init /\ [][NextRate]_vars

\* ------------------------------------------------ tokens: actions

NoResponse == [bearer |-> <<>>, info |-> NoRecord]

\* AuthManager.create_token(expires_in_days = days)
CreateToken(days) ==
    /\ NextTokenId(issued) <= MaxTokens
    /\ LET i == NextTokenId(issued)
       IN tokens' = [tokens EXCEPT ![i] =
                        [present |-> TRUE,
                         token_hash |-> HashToken(PlainToken(i)),
                         expires_at |-> IF days # 0 THEN Isoformat(Day(auth_now + days))
                                        ELSE NoExpiry,
                         last_used_at |-> NoExpiry,
                         revoked |-> FALSE]]
    /\ issued' = Append(issued, IF days # 0 THEN auth_now + days ELSE NeverExpires)
    /\ auth_resp' = NoResponse
    /\ UNCHANGED <<auth_now, revoked_ids>>
    /\ UNCHANGED exceptAuth

\* AuthManager.validate_token(token)
ValidateToken(tok) ==
    /\ LET i == Validate(tokens, tok, Day(auth_now))
       IN /\ auth_resp' = [bearer |-> tok, info |-> i]
          /\ tokens' = IF i = NoRecord THEN tokens
                       ELSE [tokens EXCEPT ![i].last_used_at = Isoformat(Day(auth_now))]
    /\ UNCHANGED <<auth_now, revoked_ids, issued>>
    /\ UNCHANGED exceptAuth

\* AuthManager.revoke_token(token_id) returning True
RevokeToken(i) ==
    /\ tokens[i].present
    /\ tokens' = [tokens EXCEPT ![i].revoked = TRUE]
    /\ revoked_ids' = revoked_ids \cup {i}
    /\ auth_resp' = NoResponse
    /\ UNCHANGED <<auth_now, issued>>
    /\ UNCHANGED exceptAuth

\* AuthManager.delete_token(token_id) returning True
DeleteToken(i) ==
    /\ tokens[i].present
    /\ tokens' = [tokens EXCEPT ![i] = AbsentToken]
    /\ auth_resp' = NoResponse
    /\ UNCHANGED <<auth_now, revoked_ids, issued>>
    /\ UNCHANGED exceptAuth

\* a day passes
AuthDay ==
    /\ auth_now < MaxDays
    /\ auth_now' = auth_now + 1
    /\ auth_resp' = NoResponse
    /\ UNCHANGED <<tokens, revoked_ids, issued>>
    /\ UNCHANGED exceptAuth

NextAuth ==
    \/ \E days \in ExpiresInputs : CreateToken(days)
    \/ \E tok \in BearerInputs : ValidateToken(tok)
    \/ \E i \in TokenIds : RevokeToken(i)
    \/ \E i \in TokenIds : DeleteToken(i)
    \/ AuthDay

SpecAuth == Init /\ [][NextAuth]_vars

\* ---------------------------------------------------------------- claims

\* C1: claim_next never returns a task that an earlier claim_next returned
\* unless a fail() put that task back to pending in between.
ClaimAtomicity == ~dup_claim

\* C1 witness: a task that was failed back to pending has been claimed again
ClaimedAgain ==
    \E t \in TaskIds : /\ tasks[t].status = "in_progress"
                       /\ tasks[t].retry_count >= 1
                       /\ last_ev[t] = "claim"

\* C2: every project has at most one agent session whose status is one of
\* spawning, working, waiting, testing.
SingleLiveSession ==
    \A p \in Projects :
        Cardinality({s \in agents : s.project = p /\ s.status \in LiveStatuses}) <= 1

\* C2 witness: a project is working in its second run (its session was replaced)
RespawnedWorking ==
    \E s \in agents : /\ s.status = "working"
                      /\ s.pid # NoPid
                      /\ \E c \in Pids : c < s.pid /\ children[c].project = s.project

\* C3 (as stated): when a tick completes, at most max_concurrent projects have
\* an agent that is working or spawning.
CapAtTickEnd ==
    tick_pc = "done" =>
        Cardinality({s.project : s \in RunningSessions(agents)}) <= MaxConcurrent

\* C4 (as stated): retry_count never exceeds max_retries.
RetryBound == \A t \in TaskIds : tasks[t].retry_count <= tasks[t].max_retries
\* C6 (as stated): after any sequence of log calls the stored rows, in id
\* order, form an unbroken hash chain, so verify_integrity() succeeds.
AuditChainVerifies == VerifyIntegrity(audit_rows)

\* C7 (as stated): no text handed out by get_logs, by the task_complete
\* output capture or by the log streamer contains a secret value of the vault.
NoSecretInOutput ==
    \A k \in VaultKeys :
        vault[k] # NoSecret => ~Contains(log_out.text, vault[k])

\* C8 (as stated): after assign_port and release_port calls only (no
\* set_port), no two assignments hold the same port.
PortsDistinct ==
    ~set_port_called =>
        \A k1, k2 \in PortKeys :
            (k1 # k2 /\ assignments[k1] # NoPort /\ assignments[k2] # NoPort)
                => assignments[k1] # assignments[k2]

\* number of the times of seq in the window [lo, lo + width)
InWindow(seq, lo, width) ==
    Cardinality({i \in 1..Len(seq) : lo <= seq[i] /\ seq[i] < lo + width})

\* C9: for every client, the calls answered allowed number at most
\* requests_per_second in any window of one second and at most
\* requests_per_minute in any window of sixty seconds (a window holds its
\* first instant and not the instant one window length later).
\* (a window that holds admitted calls holds no fewer of them when it is moved
\* to start at the first one, so the windows starting at an admitted call are
\* the ones to look at)
RateWindows ==
    \A c \in Clients : \A i \in 1..Len(admitted[c]) :
        /\ InWindow(admitted[c], admitted[c][i], SecondSpan * TicksPerSecond) <= Rps
        /\ InWindow(admitted[c], admitted[c][i], MinuteSpan * TicksPerSecond) <= Rpm

\* C9 witness: a client with requests_per_minute admitted calls has a further
\* call rejected by the per-minute limit
MinuteLimitReached ==
    \E c \in Clients : rate_resp[c] = "minute" /\ Len(admitted[c]) = Rpm

\* the token of bearer string tok is past its expiry at day now
Expired(tok, now) ==
    /\ issued[OwnerOf(tok)] # NeverExpires
    /\ issued[OwnerOf(tok)] < now

\* C10: validate_token returns no record for the bearer string of a token
\* that revoke_token has revoked, and none for a token whose expires_at is
\* earlier than the current time.
RevokedOrExpiredRejected ==
    (auth_resp.bearer # <<>> /\ OwnerOf(auth_resp.bearer) <= Len(issued)
        /\ (OwnerOf(auth_resp.bearer) \in revoked_ids \/ Expired(auth_resp.bearer, auth_now)))
    => auth_resp.info = NoRecord

\* C10 witness: a revoked token whose row is still stored is presented and
\* gets no record
RevokedPresented ==
    /\ auth_resp.bearer # <<>>
    /\ OwnerOf(auth_resp.bearer) \in revoked_ids
    /\ tokens[OwnerOf(auth_resp.bearer)].present
    /\ auth_resp.info = NoRecord
\* C11 (as stated): for every project at most one task of that project is
\* in progress.
OneInProgressPerProject ==
    \A p \in Projects :
        Cardinality({t \in TaskIds : tasks[t].status = "in_progress"
                                     /\ tasks[t].project = p}) <= 1

\* C12 (as stated): every task in progress is assigned to its own project.
AssignedToOwnProject ==
    \A t \in TaskIds :
        tasks[t].status = "in_progress" => tasks[t].assigned_to = tasks[t].project

\* C13 (as stated): when the monitor emits task_complete for a project the
\* orchestrator stored a task for, that task ends completed if the exit code
\* is 0 and is passed to fail() otherwise.
TaskCompleteSettlesTask ==
    [][\A c \in Pids :
          (/\ children[c].phase = "reaped"
           /\ children'[c].phase = "done"
           /\ agent_tasks[children[c].project] # NoTask)
          => IF children[c].exit_code = 0
             THEN tasks'[agent_tasks[children[c].project]].status = "completed"
             ELSE tasks' = FailTask(tasks, agent_tasks[children[c].project])]_vars

\* ------------------------------------------------------------ retry gate
\* The life of tasks whose every agent run exits non-zero: POST /tasks creates
\* them, the orchestrator claims one and starts its agent, the agent exits and
\* _on_agent_complete passes the task to fail().

exceptRetry == <<agents, children, agent_tasks, tickVars, histVars, sideVars, gatewayVars, bootVars, busVars, tailVars>>

\* Orchestrator._assign_tasks: claim_next(project), then spawn for the claimed task
RunStart(p) ==
    /\ ClaimTarget(tasks) # NoTask
    /\ tasks' = ClaimNext(tasks, p)
    /\ runs' = [runs EXCEPT ![ClaimTarget(tasks)] = @ + 1]
    /\ UNCHANGED <<requeues, cancel_resp, exceptRetry>>

\* Orchestrator._on_agent_complete with exit_code # 0: TaskRepository.fail
RunExitNonZero(t) ==
    /\ tasks[t].status = "in_progress"
    /\ tasks' = FailTask(tasks, t)
    /\ requeues' = [requeues EXCEPT ![t] = IF FailRow(tasks[t]).status = "pending"
                                           THEN @ + 1 ELSE @]
    /\ UNCHANGED <<runs, cancel_resp, exceptRetry>>

\* POST /tasks/{task_id}/cancel: TaskRepository.cancel, 404 when it returns None
CancelRequest(t) ==
    /\ tasks' = [tasks EXCEPT ![t] = CancelRow(tasks[t])]
    /\ cancel_resp' = [task |-> t, before |-> tasks[t],
                       code |-> IF CancelRow(tasks[t]) = tasks[t] THEN 404 ELSE 200]
    /\ UNCHANGED <<runs, requeues, exceptRetry>>

NextRetry ==
    \/ \E p \in Projects, prio \in PriorityInputs : CreateTask(p, prio)
    \/ \E p \in Projects : RunStart(p)
    \/ \E t \in TaskIds : RunExitNonZero(t)
    \/ \E t \in TaskIds : CancelRequest(t)

SpecRetry == Init /\ [][NextRetry]_vars

\* C14 (as stated): a task that has failed for good was run max_retries + 1
\* times, went back to pending max_retries times, and its retry_count equals
\* max_retries.
RunsUntilFailed ==
    \A t \in TaskIds :
        tasks[t].status = "failed"
        => /\ runs[t] = tasks[t].max_retries + 1
           /\ requeues[t] = tasks[t].max_retries
           /\ tasks[t].retry_count = tasks[t].max_retries

\* ------------------------------------------------------------ HTTP/WS gateway
\* A path is the sequence of its segments: "/tasks/T1/run" is
\* <<"tasks", "T1", "run">> and "/" is <<"">> (path.strip("/").split("/")).

Roles == {"admin", "operator", "viewer", "agent"}

\* what the Authorization header of a request yields: no header, a header
\* validate_token rejects, or a header validate_token accepts for a token of a role
Credentials == {"none", "invalid"} \cup Roles

Methods == {"GET", "POST", "DELETE"}

\* the request paths the model sends
RequestPaths ==
    {<<"">>, <<"health">>, <<"docs", "oauth2-redirect">>, <<"ws">>, <<"status">>,
     <<"agents">>, <<"agents", "spawn">>, <<"agents", "p1", "stop">>,
     <<"tasks">>, <<"tasks", "T1">>, <<"tasks", "T1", "cancel">>,
     <<"tasks", "T1", "run">>, <<"tasks", "T1", "retry">>, <<"tasks", "chain">>,
     <<"processes", "x1", "start">>, <<"ports", "assign">>,
     <<"ports", "p1", "web">>, <<"tokens">>, <<"tokens", "k1">>,
     <<"orchestrator", "start">>, <<"nowhere">>}

ReadPermissions ==
    {"agents.read", "tasks.read", "logs.read", "status.read", "projects.read"}

ROLE_PERMISSIONS(role) ==
    CASE role = "admin" ->
             {"tokens.manage", "config.write", "secrets.manage", "agents.spawn",
              "agents.stop", "tasks.create", "tasks.cancel", "heartbeat",
              "task.update", "logs.write"} \cup ReadPermissions
      [] role = "operator" ->
             {"agents.spawn", "agents.stop", "tasks.create", "tasks.cancel"}
             \cup ReadPermissions
      [] role = "viewer" -> ReadPermissions
      [] role = "agent" -> {"heartbeat", "task.update", "logs.write", "status.read"}
      [] OTHER -> {}

PUBLIC_PATHS == {<<"">>, <<"health">>, <<"docs">>, <<"openapi.json">>, <<"redoc">>}

OPTIONAL_AUTH_PATHS == {<<"ws">>}

ENDPOINT_PERMISSIONS ==
    << <<"GET", <<"agents">>, "agents.read">>,
       <<"POST", <<"agents", "spawn">>, "agents.spawn">>,
       <<"POST", <<"agents", "{project}", "stop">>, "agents.stop">>,
       <<"POST", <<"agents", "{project}", "retry">>, "agents.spawn">>,
       <<"GET", <<"agents", "{project}">>, "agents.read">>,
       <<"GET", <<"agents", "{project}", "logs">>, "logs.read">>,
       <<"POST", <<"agents", "{project}", "assign">>, "agents.spawn">>,
       <<"GET", <<"tasks">>, "tasks.read">>,
       <<"POST", <<"tasks">>, "tasks.create">>,
       <<"GET", <<"tasks", "{task_id}">>, "tasks.read">>,
       <<"POST", <<"tasks", "{task_id}", "cancel">>, "tasks.cancel">>,
       <<"GET", <<"tasks", "stats">>, "tasks.read">>,
       <<"GET", <<"projects">>, "projects.read">>,
       <<"GET", <<"status">>, "status.read">>,
       <<"GET", <<"events">>, "logs.read">>,
       <<"GET", <<"config">>, "config.write">>,
       <<"POST", <<"config">>, "config.write">>,
       <<"GET", <<"tokens">>, "tokens.manage">>,
       <<"POST", <<"tokens">>, "tokens.manage">>,
       <<"DELETE", <<"tokens", "{token_id}">>, "tokens.manage">>,
       <<"GET", <<"audit">>, "tokens.manage">> >>

\* the routes of the application in the order they are registered, each with
\* what its handler does: "read", "write" (creates, starts, stops, retries,
\* reviews, assigns or deletes something) or "spawn" (reaches AgentManager.spawn)
Routes ==
    << <<"GET", <<"">>, "read">>,
       <<"GET", <<"health">>, "read">>,
       <<"GET", <<"status">>, "read">>,
       <<"GET", <<"agents">>, "read">>,
       <<"POST", <<"agents", "spawn">>, "spawn">>,
       <<"POST", <<"agents", "{project}", "stop">>, "write">>,
       <<"POST", <<"agents", "{project}", "retry">>, "spawn">>,
       <<"GET", <<"agents", "{project}">>, "read">>,
       <<"GET", <<"agents", "{project}", "logs">>, "read">>,
       <<"POST", <<"agents", "{project}", "assign">>, "spawn">>,
       <<"GET", <<"tasks">>, "read">>,
       <<"POST", <<"tasks">>, "write">>,
       <<"GET", <<"tasks", "pending-review">>, "read">>,
       <<"GET", <<"tasks", "{task_id}">>, "read">>,
       <<"POST", <<"tasks", "{task_id}", "cancel">>, "write">>,
       <<"POST", <<"tasks", "chain">>, "write">>,
       <<"GET", <<"tasks", "{task_id}", "output">>, "read">>,
       <<"POST", <<"tasks", "{task_id}", "review">>, "write">>,
       <<"POST", <<"tasks", "{task_id}", "retry">>, "write">>,
       <<"POST", <<"tasks", "{task_id}", "run">>, "spawn">>,
       <<"GET", <<"tasks", "stats">>, "read">>,
       <<"GET", <<"processes">>, "read">>,
       <<"POST", <<"processes", "register">>, "write">>,
       <<"POST", <<"processes", "{process_id}", "start">>, "write">>,
       <<"POST", <<"processes", "{process_id}", "stop">>, "write">>,
       <<"POST", <<"processes", "{process_id}", "restart">>, "write">>,
       <<"GET", <<"processes", "{process_id}", "logs">>, "read">>,
       <<"POST", <<"processes", "{process_id}", "create-fix-task">>, "write">>,
       <<"POST", <<"projects", "{project}", "detect-processes">>, "write">>,
       <<"GET", <<"ports">>, "read">>,
       <<"POST", <<"ports", "assign">>, "write">>,
       <<"POST", <<"ports", "set">>, "write">>,
       <<"DELETE", <<"ports", "{project}", "{service}">>, "write">>,
       <<"GET", <<"projects">>, "read">>,
       <<"GET", <<"events">>, "read">>,
       <<"GET", <<"tokens">>, "read">>,
       <<"POST", <<"tokens">>, "write">>,
       <<"DELETE", <<"tokens", "{token_id}">>, "write">>,
       <<"GET", <<"orchestrator", "status">>, "read">>,
       <<"POST", <<"orchestrator", "start">>, "write">>,
       <<"POST", <<"orchestrator", "stop">>, "write">>,
       <<"GET", <<"audit">>, "read">>,
       <<"GET", <<"openapi.json">>, "read">>,
       <<"GET", <<"docs">>, "read">>,
       <<"GET", <<"docs", "oauth2-redirect">>, "read">>,
       <<"GET", <<"redoc">>, "read">> >>

\* pattern_part.startswith("{") and pattern_part.endswith("}")
Placeholders == {"{project}", "{task_id}", "{token_id}", "{process_id}", "{service}"}

match_path_pattern(path, pattern) ==
    /\ Len(path) = Len(pattern)
    /\ \A i \in 1..Len(path) : pattern[i] \in Placeholders \/ path[i] = pattern[i]

\* first entry of a table of <<method, pattern, value>> that fits the request:
\* an exact path if there is one, else the first pattern that matches
Lookup(table, method, path, none) ==
    LET exact == {i \in 1..Len(table) : table[i][1] = method /\ table[i][2] = path}
        fits == {i \in 1..Len(table) :
                    table[i][1] = method /\ match_path_pattern(path, table[i][2])}
        First(S) == CHOOSE i \in S : \A j \in S : i <= j
    IN IF exact # {} THEN table[First(exact)][3]
       ELSE IF fits # {} THEN table[First(fits)][3]
       ELSE none

get_required_permission(method, path) == Lookup(ENDPOINT_PERMISSIONS, method, path, "none")

\* the effect of the handler the router picks for the request ("none": 404/405)
RouteEffect(method, path) == Lookup(Routes, method, path, "none")

\* mutant of Authenticate: a header that does not validate is let through
AuthenticateHeaderOnly(path, cred) ==
    IF cred = "none" /\ path \notin OPTIONAL_AUTH_PATHS THEN 401 ELSE 0

\* AuthMiddleware.dispatch, "Check for auth token": 401, or 0 to go on
Authenticate(path, cred) ==
    IF cred # "none"
    THEN IF cred \notin Roles /\ path \notin OPTIONAL_AUTH_PATHS THEN 401 ELSE 0
    ELSE IF path \notin OPTIONAL_AUTH_PATHS THEN 401 ELSE 0

\* app.add_middleware(AuthMiddleware, auth_enabled=True)
auth_enabled == TRUE

\* path.startswith("/docs") or path.startswith("/redoc"), for the paths the
\* model sends (none has a first segment that merely begins with docs or redoc)
DocsPath(path) == path[1] \in {"docs", "redoc"}

\* AuthMiddleware.dispatch: the status it answers itself, or 0 for call_next
Dispatch(method, path, cred, allowed) ==
    IF ~allowed THEN 429
    ELSE IF path \in PUBLIC_PATHS \/ DocsPath(path) THEN 0
    ELSE IF ~auth_enabled THEN 0
    ELSE IF Authenticate(path, cred) # 0 THEN Authenticate(path, cred)
    ELSE IF /\ get_required_permission(method, path) # "none"
            /\ cred \in Roles
            /\ get_required_permission(method, path) \notin ROLE_PERMISSIONS(cred)
    THEN 403
    ELSE 0

exceptGateway == <<coreVars, sideVars, retryVars, bootVars, busVars, tailVars>>

\* one HTTP request: the middleware, then the router and the handler
HttpRequest(method, path, cred, allowed) ==
    /\ gw_req' = [method |-> method, path |-> path, cred |-> cred]
    /\ IF Dispatch(method, path, cred, allowed) # 0
       THEN /\ gw_resp' = Dispatch(method, path, cred, allowed)
            /\ gw_handler' = "none"
       ELSE /\ gw_resp' = IF RouteEffect(method, path) = "none" THEN 404 ELSE 200
            /\ gw_handler' = RouteEffect(method, path)
    /\ UNCHANGED exceptGateway

\* a WebSocket client connects to /ws and sends {command: "spawn"}:
\* websocket_endpoint accepts and calls agent_manager.spawn.  The handshake is
\* taken through dispatch, the most the middleware can do to it.
WsSpawn(cred, allowed) ==
    /\ gw_req' = [method |-> "GET", path |-> <<"ws">>, cred |-> cred]
    /\ IF Dispatch("GET", <<"ws">>, cred, allowed) # 0
       THEN /\ gw_resp' = Dispatch("GET", <<"ws">>, cred, allowed)
            /\ gw_handler' = "none"
       ELSE /\ gw_resp' = 101
            /\ gw_handler' = "spawn"
    /\ UNCHANGED exceptGateway

NextGateway ==
    \/ \E method \in Methods, path \in RequestPaths, cred \in Credentials,
          allowed \in BOOLEAN : HttpRequest(method, path, cred, allowed)
    \/ \E cred \in Credentials, allowed \in BOOLEAN : WsSpawn(cred, allowed)

SpecGateway == Init /\ [][NextGateway]_vars

\* C15 (as stated): a request with a valid viewer token to an endpoint whose
\* handler changes state is answered 403 (429 when the rate limiter refuses it
\* first) and the handler does not run.
ViewerNeverWrites ==
    (/\ gw_req.cred = "viewer"
     /\ RouteEffect(gw_req.method, gw_req.path) \in {"write", "spawn"})
    => gw_resp \in {403, 429} /\ gw_handler = "none"

SpawnOnlyWithPermission ==
    gw_handler = "spawn"
    => gw_req.cred \in Roles /\ "agents.spawn" \in ROLE_PERMISSIONS(gw_req.cred)

\* ------------------------------------------------------------ first-run token

\* AuthManager.has_any_tokens: SELECT COUNT(*) FROM tokens WHERE NOT revoked
HasAnyTokens(tb) == \E i \in TokenIds : tb[i].present /\ ~tb[i].revoked

\* lifespan at server start: "Create initial admin token if none exist"
\* (create_initial_admin_token, then the token is printed)
Startup ==
    /\ HasAnyTokens(tokens) \/ NextTokenId(issued) <= MaxTokens
    /\ boot' = [rows |-> Cardinality({i \in TokenIds : tokens[i].present}),
                printed |-> ~HasAnyTokens(tokens)]
    /\ IF HasAnyTokens(tokens)
       THEN UNCHANGED <<tokens, issued>>
       ELSE /\ tokens' = [tokens EXCEPT ![NextTokenId(issued)] =
                             [present |-> TRUE,
                              token_hash |-> HashToken(PlainToken(NextTokenId(issued))),
                              expires_at |-> NoExpiry,
                              last_used_at |-> NoExpiry,
                              revoked |-> FALSE]]
            /\ issued' = Append(issued, NeverExpires)
    /\ auth_resp' = NoResponse
    /\ UNCHANGED <<auth_now, revoked_ids>>
    /\ UNCHANGED <<coreVars, auditVars, scrubVars, portVars, rateVars,
                   retryVars, gatewayVars, busVars, tailVars>>

NextBoot ==
    \/ NextAuth
    \/ Startup

SpecBoot == Init /\ [][NextBoot]_vars

\* C18 (as stated): a startup creates and prints a token only when the tokens
\* table held no row at all.
BootstrapOnlyWhenEmpty == boot.printed => boot.rows = 0

\* ------------------------------------------------------------ event bus
\* emit(type, project, **data) builds the event and calls publish_sync, so an
\* emit call is a publish_sync call.

\* h[-n:]
LastN(h, n) == IF Len(h) <= n THEN h ELSE SubSeq(h, Len(h) - n + 1, Len(h))

exceptBus == <<coreVars, sideVars, retryVars, gatewayVars, bootVars, tailVars>>

\* EventBus.publish(event), "Add to history": the append, the length test and
\* the slice; the store of the slice into _history is PublishStore
PublishAppend(h, e) ==
    /\ bus_history' = Append(h, e)
    /\ bus_slice' = IF Len(h) + 1 > max_history
                    THEN [active |-> TRUE, value |-> LastN(Append(h, e), max_history)]
                    ELSE [active |-> FALSE, value |-> <<>>]

\* a coroutine awaits publish(event)
Publish ==
    /\ ~bus_slice.active
    /\ bus_published < MaxEvents
    /\ bus_published' = bus_published + 1
    /\ PublishAppend(bus_history, bus_published + 1)
    /\ UNCHANGED <<bus_scheduled, exceptBus>>

\* EventBus.publish: self._history = <the slice>
PublishStore ==
    /\ bus_slice.active
    /\ bus_history' = bus_slice.value
    /\ bus_slice' = [active |-> FALSE, value |-> <<>>]
    /\ UNCHANGED <<bus_scheduled, bus_published, exceptBus>>

\* publish_sync / emit on the thread of the running loop: create_task(publish)
PublishSyncOnLoop ==
    /\ ~bus_slice.active
    /\ bus_published < MaxEvents
    /\ Len(bus_scheduled) < MaxScheduled
    /\ bus_published' = bus_published + 1
    /\ bus_scheduled' = Append(bus_scheduled, bus_published + 1)
    /\ UNCHANGED <<bus_history, bus_slice, exceptBus>>

\* the event loop runs the oldest publish() task
RunScheduled ==
    /\ ~bus_slice.active
    /\ bus_scheduled # <<>>
    /\ PublishAppend(bus_history, Head(bus_scheduled))
    /\ bus_scheduled' = Tail(bus_scheduled)
    /\ UNCHANGED <<bus_published, exceptBus>>

\* publish_sync / emit on a thread that has no event loop: get_event_loop
\* raises RuntimeError and the event is appended to _history as it is
PublishSyncOffLoop ==
    /\ bus_published < MaxEvents
    /\ bus_published' = bus_published + 1
    /\ bus_history' = Append(bus_history, bus_published + 1)
    /\ UNCHANGED <<bus_scheduled, bus_slice, exceptBus>>

NextBus ==
    \/ Publish
    \/ PublishStore
    \/ PublishSyncOnLoop
    \/ RunScheduled
    \/ PublishSyncOffLoop

SpecBus == Init /\ [][NextBus]_vars

\* C19 (as stated): once every call has been carried out, the history holds at
\* most max_history events, and they are the most recently published ones in
\* publication order.
HistoryIsRecentPublished ==
    (~bus_slice.active /\ bus_scheduled = <<>>)
    => /\ Len(bus_history) <= max_history
       /\ \A i \in 1..Len(bus_history) :
             bus_history[i] = bus_published - Len(bus_history) + i

\* C20: cancel on a task that is completed, failed or cancelled leaves its row
\* as it was (status, completed_at and all other fields) and the request is
\* answered 404; for every row the table holds, cancel leaves it unchanged
\* whichever terminal status it has.
CancelTerminalIsNoOp ==
    /\ (cancel_resp.task # NoTask /\ cancel_resp.before.status \in {"completed", "failed", "cancelled"})
       => /\ tasks[cancel_resp.task] = cancel_resp.before
          /\ cancel_resp.code = 404
    /\ \A t \in TaskIds, st \in {"completed", "failed", "cancelled"} :
          CancelRow([tasks[t] EXCEPT !.status = st]) = [tasks[t] EXCEPT !.status = st]

\* cancel was called on a task that had failed for good
CancelledAFailedTask ==
    /\ cancel_resp.task # NoTask
    /\ cancel_resp.before.status = "failed"
    /\ cancel_resp.before.completed_at = "fail"

\* ------------------------------------------------------ managed processes

StartedRuns(rs) == {r \in ProcRuns : rs[r].phase # "none"}

\* the run state.pid refers to: the one started last
CurrentRun(rs) == CHOOSE r \in StartedRuns(rs) : \A q \in StartedRuns(rs) : q <= r

\* ProcessManager.start with a Popen that succeeds
StartRun(rs) ==
    [rs EXCEPT ![Cardinality(StartedRuns(rs)) + 1] = [NoRun EXCEPT !.phase = "running"]]

\* ProcessManager.stop past its status test: the run it signals
StopRun(rs) ==
    IF rs[CurrentRun(rs)].phase \in {"running", "exited"}
    THEN [rs EXCEPT ![CurrentRun(rs)].stop_called = TRUE]
    ELSE rs

exceptProc == <<coreVars, sideVars, retryVars, gatewayVars, bootVars, busVars, streamVars, plogVars, envVars, tamperVars, queueVars, dlvVars>>

\* POST /processes/{id}/start -> ProcessManager.start
ProcStart(popen_ok) ==
    /\ proc_status # "running"
    /\ Cardinality(StartedRuns(proc_runs)) < MaxProcRuns
    /\ IF popen_ok
       THEN /\ proc_runs' = StartRun(proc_runs)
            /\ proc_status' = "running"
       ELSE /\ proc_status' = "failed"
            /\ UNCHANGED proc_runs
    /\ UNCHANGED proc_stopping
    /\ UNCHANGED exceptProc

\* POST /processes/{id}/stop -> ProcessManager.stop; it returns without waiting
\* for the child to exit
ProcStop ==
    /\ proc_status = "running"
    /\ proc_stopping' = TRUE
    /\ proc_runs' = StopRun(proc_runs)
    /\ proc_status' = "stopped"
    /\ UNCHANGED exceptProc

\* POST /processes/{id}/restart -> ProcessManager.restart: stop, then start
ProcRestart ==
    /\ Cardinality(StartedRuns(proc_runs)) < MaxProcRuns
    /\ proc_stopping' = (proc_stopping \/ proc_status = "running")
    /\ proc_runs' = StartRun(IF proc_status = "running" THEN StopRun(proc_runs)
                             ELSE proc_runs)
    /\ proc_status' = "running"
    /\ UNCHANGED exceptProc

\* the child of run r exits, by itself or on the signal stop sent
ProcChildExit(r, code) ==
    /\ proc_runs[r].phase = "running"
    /\ proc_runs' = [proc_runs EXCEPT ![r].phase = "exited", ![r].exit_code = code]
    /\ UNCHANGED <<proc_status, proc_stopping>>
    /\ UNCHANGED exceptProc

\* _monitor_process of run r, lines 379-383: wait() returns, the thread reads
\* and discards the stopping mark of the process id
MonitorCheck(r) ==
    /\ proc_runs[r].phase = "exited"
    /\ proc_runs' = [proc_runs EXCEPT ![r].phase = "checked",
                                      ![r].was_intentional_stop = proc_stopping]
    /\ proc_stopping' = FALSE
    /\ UNCHANGED proc_status
    /\ UNCHANGED exceptProc

\* the status _monitor_process gives the run
Classify(run) ==
    IF run.was_intentional_stop THEN "stopped"
    ELSE IF run.exit_code # 0 THEN "failed" ELSE "stopped"

\* _monitor_process of run r, "Update state": the state of the process id
MonitorUpdate(r) ==
    /\ proc_runs[r].phase = "checked"
    /\ proc_runs' = [proc_runs EXCEPT ![r].phase = "done",
                                      ![r].class = Classify(proc_runs[r])]
    /\ proc_status' = Classify(proc_runs[r])
    /\ UNCHANGED proc_stopping
    /\ UNCHANGED exceptProc

NextProc ==
    \/ \E ok \in BOOLEAN : ProcStart(ok)
    \/ ProcStop
    \/ ProcRestart
    \/ \E r \in ProcRuns, code \in ExitCodes : ProcChildExit(r, code)
    \/ \E r \in ProcRuns : MonitorCheck(r)
    \/ \E r \in ProcRuns : MonitorUpdate(r)

SpecProc == Init /\ [][NextProc]_vars

\* C23 (as stated): a run whose exit has been handled is classified stopped
\* if stop was called for it, and otherwise failed exactly when its exit code
\* is not zero; a stop request does not reach a later run.
StopNotCarriedOver ==
    \A r \in ProcRuns :
        proc_runs[r].class # "none"
        => proc_runs[r].class =
               (IF proc_runs[r].stop_called \/ proc_runs[r].exit_code = 0
                THEN "stopped" ELSE "failed")

\* ------------------------------------------------ streaming of agent logs: actions

exceptStream == <<coreVars, sideVars, retryVars, gatewayVars, bootVars, busVars, procVars, plogVars, envVars, tamperVars, queueVars, dlvVars>>

CreatedStreamers(st) == {s \in StreamerIds : st[s].task # "none"}

\* the agent child appends a line to the log file
StreamLogWrite ==
    /\ log_len < MaxStreamLines
    /\ log_len' = log_len + 1
    /\ UNCHANGED <<subscribers, streamers, held, unsub_wait, sub_at, first_got>>
    /\ UNCHANGED exceptStream

\* AgentStreamManager.subscribe(project, c); LogStreamer.start(from_beginning =
\* False) sets _position to the size of the file and creates the task
Subscribe(c) ==
    /\ unsub_wait[c] = NoStreamer
    /\ held # NoStreamer \/ Cardinality(CreatedStreamers(streamers)) < MaxStreamers
    /\ subscribers' = subscribers \cup {c}
    /\ IF held = NoStreamer
       THEN /\ held' = Cardinality(CreatedStreamers(streamers)) + 1
            /\ streamers' = [streamers EXCEPT ![held'] =
                                [task |-> "running", position |-> log_len]]
       ELSE UNCHANGED <<held, streamers>>
    /\ sub_at' = [sub_at EXCEPT ![c] = log_len]
    /\ first_got' = [first_got EXCEPT ![c] = 0]
    /\ UNCHANGED <<log_len, unsub_wait>>
    /\ UNCHANGED exceptStream

\* LogStreamer._stream_loop of streamer s, one poll that finds new content:
\* _broadcast hands it to every callback in _subscribers[project]
StreamLoop(s) ==
    /\ streamers[s].task = "running"
    /\ log_len > streamers[s].position
    /\ streamers' = [streamers EXCEPT ![s].position = log_len]
    /\ first_got' = [c \in WsClients |->
                        IF c \in subscribers /\ first_got[c] = 0
                        THEN streamers[s].position + 1 ELSE first_got[c]]
    /\ UNCHANGED <<log_len, subscribers, held, unsub_wait, sub_at>>
    /\ UNCHANGED exceptStream

\* AgentStreamManager.unsubscribe(project, c) up to "await stop()":
\* LogStreamer.stop clears _running, cancels the task and awaits it; the call
\* is suspended there unless the task has already finished
UnsubscribeBegin(c) ==
    /\ c \in subscribers
    /\ unsub_wait[c] = NoStreamer
    /\ subscribers' = subscribers \ {c}
    /\ IF subscribers' = {} /\ held # NoStreamer
       THEN IF streamers[held].task = "done"
            THEN /\ held' = NoStreamer
                 /\ UNCHANGED <<streamers, unsub_wait>>
            ELSE /\ streamers' = [streamers EXCEPT ![held].task = "cancelled"]
                 /\ unsub_wait' = [unsub_wait EXCEPT ![c] = held]
                 /\ UNCHANGED held
       ELSE UNCHANGED <<streamers, held, unsub_wait>>
    /\ UNCHANGED <<log_len, sub_at, first_got>>
    /\ UNCHANGED exceptStream

\* the cancelled task of streamer s finishes
StreamTaskEnds(s) ==
    /\ streamers[s].task = "cancelled"
    /\ streamers' = [streamers EXCEPT ![s].task = "done"]
    /\ UNCHANGED <<log_len, subscribers, held, unsub_wait, sub_at, first_got>>
    /\ UNCHANGED exceptStream

\* unsubscribe resumes after "await stop()": del self._streamers[project]
UnsubscribeEnd(c) ==
    /\ unsub_wait[c] # NoStreamer
    /\ streamers[unsub_wait[c]].task = "done"
    /\ held' = NoStreamer
    /\ unsub_wait' = [unsub_wait EXCEPT ![c] = NoStreamer]
    /\ UNCHANGED <<log_len, subscribers, streamers, sub_at, first_got>>
    /\ UNCHANGED exceptStream

NextStream ==
    \/ StreamLogWrite
    \/ \E c \in WsClients : Subscribe(c)
    \/ \E s \in StreamerIds : StreamLoop(s)
    \/ \E c \in WsClients : UnsubscribeBegin(c)
    \/ \E s \in StreamerIds : StreamTaskEnds(s)
    \/ \E c \in WsClients : UnsubscribeEnd(c)

SpecStream == Init /\ [][NextStream]_vars

\* C24 (as stated): at most one streamer of the project is tailing the log,
\* and when no subscriber is left and no unsubscribe call is still in
\* progress, the manager holds no streamer and none is tailing.
OneStreamerStoppedWhenUnused ==
    /\ Cardinality({s \in StreamerIds : streamers[s].task = "running"}) <= 1
    /\ (subscribers = {} /\ \A c \in WsClients : unsub_wait[c] = NoStreamer)
       => /\ held = NoStreamer
          /\ \A s \in StreamerIds : streamers[s].task # "running"

\* C25 (as stated): the first line a subscriber is handed was written after
\* its subscribe call.
NoContentFromBeforeSubscribe ==
    \A c \in WsClients : first_got[c] = 0 \/ first_got[c] > sub_at[c]

\* ------------------------------------------------ logs of managed processes

exceptProcLog == <<coreVars, auditVars, portVars, rateVars, authVars,
                   retryVars, gatewayVars, bootVars, busVars, procVars, streamVars, envVars, tamperVars, queueVars, dlvVars>>

\* the child of a managed process appends a line to its log file
ProcessChildWrite(piece) ==
    /\ Len(process_log) < MaxLogLines
    /\ piece \in LogPieces(vault)
    /\ process_log' = Append(process_log, piece)
    /\ UNCHANGED scrubVars
    /\ UNCHANGED exceptProcLog

\* ProcessManager.get_logs(process_id, lines = n)
ProcessGetLogs(lg, n) == JoinLines(LastLines(lg, n))

\* GET /processes/{id}/logs -> get_process_logs
GetProcessLogs(n) ==
    /\ process_log # <<>>
    /\ log_out' = [kind |-> "process_logs", text |-> ProcessGetLogs(process_log, n)]
    /\ UNCHANGED <<vault, known_secrets, scrubber_loaded, agent_log, stream_pos>>
    /\ UNCHANGED process_log
    /\ UNCHANGED exceptProcLog

NextProcLog ==
    \/ NextScrub
    \/ \E piece \in SecretInputs \cup {OkLine, BearerLine} : ProcessChildWrite(piece)
    \/ \E n \in 1..MaxLogLines : GetProcessLogs(n)

SpecProcLog == Init /\ [][NextProcLog]_vars

\* C26 (as stated): the text returned by ProcessManager.get_logs through
\* GET /processes/{id}/logs contains no secret the scrubber knows (the values
\* it loads from the vault).
ProcessLogsScrubbed ==
    log_out.kind = "process_logs"
    => \A sec \in GetScrubber(scrubber_loaded, known_secrets, vault) :
           ~Contains(log_out.text, sec)

\* ------------------------------------------------ requests and the audit write

\* AuthMiddleware.dispatch calls audit() before it answers 429, 401 for a
\* header that does not validate, and 403
DispatchAudits(method, path, cred, allowed) ==
    \/ Dispatch(method, path, cred, allowed) \in {429, 403}
    \/ Dispatch(method, path, cred, allowed) = 401 /\ cred # "none"

\* the handlers of the model's routes that call audit(): spawn_agent, create_task
HandlerAudits(method, path) ==
    /\ method = "POST"
    /\ path \in {<<"agents", "spawn">>, <<"tasks">>}

\* the status of the response when every audit() call returns
NormalResponse(method, path, cred, allowed) ==
    IF Dispatch(method, path, cred, allowed) # 0
    THEN Dispatch(method, path, cred, allowed)
    ELSE IF RouteEffect(method, path) = "none" THEN 404 ELSE 200

\* the paths the requests of this component go to
AuditedPaths == {<<"health">>, <<"agents">>, <<"agents", "spawn">>, <<"tasks">>}

exceptEnv == <<coreVars, sideVars, retryVars, bootVars, busVars, procVars, streamVars, plogVars, tamperVars, queueVars, dlvVars>>

\* one HTTP request whose audit() call, if it makes one, raises when insert_ok
\* is FALSE: audit() and AuditLogger.log catch nothing, dispatch and the
\* handlers catch at most ValueError, so the exception leaves the application
\* and the client is answered 500.  The handler has done its work by then.
AuditedRequest(method, path, cred, allowed, insert_ok) ==
    /\ gw_req' = [method |-> method, path |-> path, cred |-> cred]
    /\ gw_env' = [allowed |-> allowed, insert_ok |-> insert_ok]
    /\ gw_handler' = IF Dispatch(method, path, cred, allowed) # 0 THEN "none"
                     ELSE RouteEffect(method, path)
    /\ gw_resp' = IF /\ ~insert_ok
                     /\ \/ DispatchAudits(method, path, cred, allowed)
                        \/ /\ Dispatch(method, path, cred, allowed) = 0
                           /\ HandlerAudits(method, path)
                  THEN 500
                  ELSE NormalResponse(method, path, cred, allowed)
    /\ UNCHANGED exceptEnv

NextEnv ==
    \E method \in Methods, path \in AuditedPaths, cred \in Credentials,
       allowed \in BOOLEAN, insert_ok \in BOOLEAN :
        AuditedRequest(method, path, cred, allowed, insert_ok)

SpecEnv == Init /\ [][NextEnv]_vars

\* C27 (as stated): a request whose audit write fails is answered as it is
\* when the write succeeds: 429, 401, 403 or the handler's normal result.
AuditFailureKeepsResponse ==
    gw_resp # 0 =>
        gw_resp = NormalResponse(gw_req.method, gw_req.path, gw_req.cred, gw_env.allowed)

\* ------------------------------------------------ audit log: tampering

exceptTamper == <<coreVars, scrubVars, portVars, rateVars, authVars, retryVars,
                  gatewayVars, bootVars, busVars, procVars, streamVars, plogVars, envVars, queueVars, dlvVars>>

\* somebody with access to audit.db overwrites one column of row i
TamperColumn(i, col) ==
    /\ i <= Len(audit_rows)
    /\ tampering[i] = "none"
    /\ tampering' = [tampering EXCEPT ![i] = col]
    /\ UNCHANGED auditVars
    /\ UNCHANGED exceptTamper

\* somebody deletes row i
TamperDelete(i) ==
    /\ i <= Len(audit_rows)
    /\ tampering[i] # "deleted"
    /\ tampering' = [tampering EXCEPT ![i] = "deleted"]
    /\ UNCHANGED auditVars
    /\ UNCHANGED exceptTamper

\* the log calls of this component: every INSERT succeeds
NextTamper ==
    \/ \E a \in AuditActions, us \in UsecInputs : AuditLog(a, "u1", us, TRUE)
    \/ \E i \in AuditIds, col \in AuditColumns : TamperColumn(i, col)
    \/ \E i \in AuditIds : TamperDelete(i)

SpecTamper == Init /\ [][NextTamper]_vars

\* C28 (as stated): when a stored row was overwritten in one of the columns
\* timestamp, actor_type, actor_id, actor_ip, action, prev_hash, entry_hash,
\* or a row before a remaining row was deleted, verify_integrity() fails and
\* names the first row the change shows on; otherwise it succeeds.
VerifyNamesFirstTampered ==
    LET affected == AffectedIds(audit_rows, tampering)
        named == VerifyNaming(audit_rows, tampering,
                              TableIds(audit_rows, tampering, 1), 1, NoHash)
    IN IF affected = {} THEN named = 0
       ELSE named = CHOOSE i \in affected : \A j \in affected : i <= j

\* ------------------------------------------------ ordering of the task queue: actions

\* the ORDER BY of claim_next: priority rank, then created_at
QueueBefore(tb, a, b) ==
    \/ PriorityRank(tb[a].priority) < PriorityRank(tb[b].priority)
    \/ /\ PriorityRank(tb[a].priority) = PriorityRank(tb[b].priority)
       /\ tb[a].created_at < tb[b].created_at

\* the rows the subquery of claim_next may return: the pending rows no pending
\* row sorts before.  Among rows equal in both sort keys SQL leaves the order,
\* and so the row LIMIT 1 keeps, open
ClaimCandidates(tb) ==
    {t \in QueueIds : /\ tb[t].status = "pending"
                      /\ \A u \in QueueIds : tb[u].status = "pending"
                                             => ~QueueBefore(tb, u, t)}

exceptQueue == <<coreVars, sideVars, retryVars, gatewayVars, bootVars, busVars,
                 procVars, streamVars, plogVars, envVars, tamperVars, dlvVars>>

\* TaskRepository.create: a row with a fresh id and created_at = now
QueueCreate(t, prio, stamp) ==
    /\ queue_rows[t].status = "absent"
    /\ queue_rows' = [queue_rows EXCEPT ![t] =
                         [status |-> "pending", priority |-> prio, created_at |-> stamp]]
    /\ UNCHANGED queue_claim
    /\ UNCHANGED exceptQueue

\* TaskRepository.claim_next when a row is pending
QueueClaimNext ==
    \E t \in ClaimCandidates(queue_rows) :
        /\ queue_rows' = [queue_rows EXCEPT ![t].status = "in_progress"]
        /\ queue_claim' = [before |-> queue_rows, got |-> t]
        /\ UNCHANGED exceptQueue

NextQueue ==
    \/ \E t \in QueueIds, prio \in QueuePriorities, stamp \in 1..MaxStamp :
          QueueCreate(t, prio, stamp)
    \/ QueueClaimNext

SpecQueue == Init /\ [][NextQueue]_vars

\* C29 (as stated): claim_next returns the pending row that is first by
\* priority, then created_at, then id.
ClaimNextTotalOrder ==
    queue_claim.got # 0 =>
        \A u \in QueueIds \ {queue_claim.got} :
            queue_claim.before[u].status = "pending"
            => \/ QueueBefore(queue_claim.before, queue_claim.got, u)
               \/ /\ ~QueueBefore(queue_claim.before, u, queue_claim.got)
                  /\ queue_claim.got < u

\* ------------------------------------------------ event delivery: actions
\* The history part of publish() is the event bus component above; this one
\* follows the calls of the subscriber callbacks.

exceptDlv == <<coreVars, sideVars, retryVars, gatewayVars, bootVars, busVars,
               procVars, streamVars, plogVars, envVars, tamperVars, queueVars>>

\* EventBus.emit on the running loop: publish_sync creates a task for publish(event)
Emit ==
    \E e \in EmitIds :
        /\ dlv_tasks[e].state = "none"
        /\ \A d \in 1..(e - 1) : dlv_tasks[d].state # "none"
        /\ dlv_tasks' = [dlv_tasks EXCEPT ![e] = [state |-> "ready", at |-> 0]]
        /\ UNCHANGED dlv_invoked
        /\ UNCHANGED exceptDlv

\* the callbacks one run of a publish() task calls: from the one after at up
\* to upto, the last of them suspending (upto > NumSubscribers: none suspends)
CalledNow(at, upto) == {k \in SubscriberIds : at < k /\ k <= upto}

\* the event loop runs the publish() task of event e until it next suspends
\* or ends: "for callback in self._all_subscribers: await callback(event)".
\* A task is first run after those created before it; a suspended callback
\* resumes when what it awaits (a send to a client) completes
DeliverRun(e, upto) ==
    /\ dlv_tasks[e].state \in {"ready", "waiting"}
    /\ dlv_tasks[e].state = "ready"
       => \A d \in 1..(e - 1) : dlv_tasks[d].state # "ready"
    /\ upto > dlv_tasks[e].at
    /\ dlv_invoked' = [k \in SubscriberIds |->
                          IF k \in CalledNow(dlv_tasks[e].at, upto)
                          THEN Append(dlv_invoked[k], e) ELSE dlv_invoked[k]]
    /\ dlv_tasks' = [dlv_tasks EXCEPT ![e] =
                        IF upto > NumSubscribers THEN [state |-> "done", at |-> NumSubscribers]
                        ELSE [state |-> "waiting", at |-> upto]]
    /\ UNCHANGED exceptDlv

NextDlv ==
    \/ Emit
    \/ \E e \in EmitIds, upto \in 1..(NumSubscribers + 1) : DeliverRun(e, upto)

SpecDlv == Init /\ [][NextDlv]_vars

\* C30 (as stated): each subscriber callback is called with the events in the
\* order they were emitted.
DeliveredInEmitOrder ==
    \A k \in SubscriberIds :
        \A i, j \in 1..Len(dlv_invoked[k]) :
            i < j => dlv_invoked[k][i] < dlv_invoked[k][j]

OneLiveChildPerProject ==
    \A p \in Projects :
        Cardinality({c \in Pids : children[c].project = p
                                  /\ children[c].phase = "running"}) <= 1

\* C31 (as stated): in every step of the assignment loop that claims a task
\* (moves it from pending to in_progress), either a child is started for it or
\* the task does not stay in_progress.
ClaimedTaskFailedWhenNoAgent ==
    [][(/\ tick_pc = "assign"
        /\ \E t \in TaskIds : /\ tasks[t].status = "pending"
                              /\ tasks'[t].status = "in_progress")
       => \E c \in Pids : /\ children[c].phase = "none"
                          /\ children'[c].phase = "running"]_vars

\* C32 (as stated): every step in which a session becomes stopped by
\* AgentManager.stop or by the health check (no child is reaped in it) leaves
\* no task in_progress that is assigned to the session's project.
StoppedSessionFailsTasks ==
    [][\A p \in Projects :
          (/\ HasSession(agents, p) /\ SessionOf(agents, p).status # "stopped"
           /\ HasSession(agents', p) /\ SessionOf(agents', p).status = "stopped"
           /\ children' = children)
          => \A t \in TaskIds :
                ~(tasks'[t].status = "in_progress" /\ tasks'[t].assigned_to = p)]_vars

\* C34 (as stated): in every step of the assignment loop that starts a child for
\* the listed task T, the task claim_next moves from pending to in_progress is T,
\* and the task id recorded for T's project is T.
AssignsListedTask ==
    [][(/\ tick_pc = "assign"
        /\ \E c \in Pids : /\ children[c].phase = "none"
                            /\ children'[c].phase = "running")
       => LET t == Head(tick_list)
          IN /\ tasks[t].status = "pending"
             /\ tasks'[t].status = "in_progress"
             /\ agent_tasks'[tasks[t].project] = t]_vars

\* ---------------------------------------------------------------------------
\* the orchestrator loop under fairness
\* ---------------------------------------------------------------------------

\* a second setting of config.agents.max_concurrent
WideConcurrent == 2

\* the limit of list_pending(limit=10), scaled so that more tasks than the limit
\* can be pending
ShortListLimit == 1

TickBeginWide == TickBeginWith(WideConcurrent, ShortListLimit)

TickStepWide(popen_ok) == TickStepWith(WideConcurrent, popen_ok)

NextFair ==
    \/ \E p \in Projects, prio \in PriorityInputs : CreateTask(p, prio)
    \/ \E p \in Projects : SpawnAgent(p, ManualTask, TRUE)
    \/ \E c \in Pids, code \in {0, 1} : ChildExit(c, code)
    \/ \E c \in Pids : Monitor(c)
    \/ TickBeginWide
    \/ \E ok \in BOOLEAN : TickStepWide(ok)
    \/ TickEnd

\* Orchestrator._run_loop: while _running, a tick follows every sleep
KeepsTicking ==
    /\ WF_vars(TickBeginWide)
    /\ WF_vars(\E ok \in BOOLEAN : TickStepWide(ok))
    /\ WF_vars(TickEnd)

SpecFair == Init /\ [][NextFair]_vars /\ KeepsTicking

\* the project of task t has no working or spawning session
ProjectFree(t) ==
    tasks[t].project \notin {s.project : s \in RunningSessions(agents)}

\* C33 (as stated): if the orchestrator keeps ticking, the number of busy
\* sessions is below max_concurrent infinitely often, and from some point on the
\* project of a task has no working or spawning session, then the task, once
\* pending, does not stay pending for ever (it is eventually claimed).
PendingEventuallyAssigned ==
    \A t \in TaskIds :
        (/\ []<>(tick_pc = "idle")
         /\ []<>(Cardinality(RunningSessions(agents)) < WideConcurrent)
         /\ <>[]ProjectFree(t))
        => ((tasks[t].status = "pending") ~> (tasks[t].status # "pending"))

\* C35 (as stated): while the child of the run started last is alive and stop
\* has not been called for it, the recorded status is running; the exit of the
\* child of an earlier run does not change it.
NewRunStaysRunning ==
    StartedRuns(proc_runs) # {}
    => LET r == CurrentRun(proc_runs)
       IN (proc_runs[r].phase = "running" /\ ~proc_runs[r].stop_called)
          => proc_status = "running"

\* C36 (as stated): when the monitor thread handles the exit of child c while
\* the session of its project belongs to a later run (its pid is another
\* child's), the step changes neither the session, nor the task recorded for
\* the project, nor any task.
EarlierExitLeavesLaterRun ==
    [][\A c \in Pids :
          (/\ children[c].phase = "reaped"
           /\ children'[c].phase = "done"
           /\ HasSession(agents, children[c].project)
           /\ SessionOf(agents, children[c].project).pid \notin {c, NoPid})
          => /\ agents' = agents
             /\ agent_tasks' = agent_tasks
             /\ tasks' = tasks]_vars

\* C37 (as stated): a step of the health check or of the child-exit monitor
\* raises the retry_count of a task by at most 1, and only of a task that is
\* in_progress: a task already put back or failed for its run is not failed a
\* second time.
OneFailPerRun ==
    [][(\/ tick_pc = "idle" /\ tick_pc' # "idle"
        \/ \E c \in Pids : children[c].phase = "reaped" /\ children'[c].phase = "done")
       => \A t \in TaskIds :
             tasks'[t].retry_count # tasks[t].retry_count
             => /\ tasks[t].status = "in_progress"
                /\ tasks'[t].retry_count = tasks[t].retry_count + 1]_vars

\* C38 (as stated): when no unsubscribe call is suspended and the subscriber
\* set is not empty, the manager holds a streamer whose task is running.
SubscribersHaveTailer ==
    (subscribers # {} /\ \A c \in WsClients : unsub_wait[c] = NoStreamer)
    => /\ held # NoStreamer
       /\ streamers[held].task = "running"

\* C39 (as stated): every session whose status is working has a pid.
WorkingHasPid ==
    \A s \in agents : s.status = "working" => s.pid # NoPid

\* C40 (as stated): a log call whose INSERT fails (it stores no row) leaves the
\* chain head unchanged.
FailedInsertKeepsHead ==
    [][(audit_clock' # audit_clock /\ audit_rows' = audit_rows)
       => last_hash' = last_hash]_vars

====
